---------------------------- MODULE Spec2Model ----------------------------
(***************************************************************************)
(* A model of the fcavani/httprouter dispatcher: route registration        *)
(* (Router.Handle), the request decision procedure (Router.ServeHTTP) with *)
(* its language-prefix redirection (Router.selectLang), the Allow-header   *)
(* computation (Router.allowed), the buffered ResponseWriter with its      *)
(* Reset/Copy commit protocol, and the race between the handler goroutine  *)
(* and the context's Done channel.                                         *)
(*                                                                         *)
(* A path is a sequence of tokens: the token "/" and path segments, so     *)
(* "/en/a/" is <<"/", "en", "/", "a", "/">>.  strings.Split(path, "/"),    *)
(* path[len(path)-1] == '/', rawpath + "/" and "/" + lang + path act on    *)
(* these sequences as they act on the strings.                             *)
(***************************************************************************)
EXTENDS Integers, Sequences, FiniteSets, TLC

VARIABLES
  trees,          \* Router.trees: method -> the routes of that method's trie
  globalAllowed,  \* Router.globalAllowed
  maxParams,      \* Router.maxParams
  cfg,            \* the exported configuration fields of the Router
  pc,             \* where the goroutine running ServeHTTP stands
  req,            \* the request being served
  w,              \* the ResponseWriter buffer ServeHTTP hands to the handlers
  rw,             \* the http.ResponseWriter of the transport (the sink)
  hpc,            \* where the nested goroutine running the handler stands
  ctxErr,         \* ctx.Err() of the context the select waits on
  outcome,        \* which terminal outcomes this ServeHTTP call produced
  redir,          \* which redirect this call issued: "", "tsr", "fix" or "lang"
  handled,        \* the handle this call invoked, NilHandle when none
  lang,           \* the "UASelectedLang" value of the request the handle got
  hooked,         \* how many times this ServeHTTP call invoked Router.PanicHandler
  written,        \* the calls a user of the ResponseWriter made on w, in order
  ret             \* what the last call of an exported function returned

vars == <<trees, globalAllowed, maxParams, cfg, pc, req, w, rw, hpc, ctxErr,
          outcome, redir, handled, lang, hooked, written, ret>>

---------------------------------------------------------------------------
(* Bounds of the model. *)

\* At most this many routes are registered.
MaxRoutes == 2

\* At most this many calls are made on a ResponseWriter before it is copied.
MaxCalls == 4

\* At most this many entries are in a header value handed to Parse.
MaxEntries == 3

---------------------------------------------------------------------------
(* net/http constants used by the router. *)

StatusOK == 200
StatusMovedPermanently == 301
StatusTemporaryRedirect == 307
StatusPermanentRedirect == 308
StatusNoContent == 204
StatusNotFound == 404
StatusMethodNotAllowed == 405
StatusRequestTimeout == 408
StatusTeapot == 418
StatusInternalServerError == 500

MethodGet == "GET"
MethodPost == "POST"
MethodOptions == "OPTIONS"
MethodConnect == "CONNECT"

Methods == {MethodGet, MethodPost, MethodOptions, MethodConnect}

\* The bytes of a method name, for Go's string comparison allowed[j] < allowed[j-1].
MethodBytes(m) ==
  CASE m = "GET" -> <<71, 69, 84>>
    [] m = "POST" -> <<80, 79, 83, 84>>
    [] m = "OPTIONS" -> <<79, 80, 84, 73, 79, 78, 83>>
    [] m = "CONNECT" -> <<67, 79, 78, 78, 69, 67, 84>>

RECURSIVE BytesLess(_, _)
BytesLess(a, b) ==
  IF b = <<>> THEN FALSE
  ELSE IF a = <<>> THEN TRUE
  ELSE IF Head(a) # Head(b) THEN Head(a) < Head(b)
  ELSE BytesLess(Tail(a), Tail(b))

\* Go's s < t on two method names.
StrLess(s, t) == BytesLess(MethodBytes(s), MethodBytes(t))

---------------------------------------------------------------------------
(* Paths. *)

Slash == "/"

\* The handler functions a route can be registered with; "nil" is the nil func.
Handlers == {"h1"}
NilHandle == "nil"

\* The registrations the program makes: Handle(method, path, i18n, handle).
Registrations ==
  { [method |-> "GET", path |-> <<"/", "a">>, i18n |-> FALSE],
    [method |-> "GET", path |-> <<"/", "a">>, i18n |-> TRUE],
    [method |-> "GET", path |-> <<"/", "a", "/">>, i18n |-> FALSE],
    [method |-> "GET", path |-> <<"/", "u", "/", ":p">>, i18n |-> FALSE],
    [method |-> "GET", path |-> <<"/", "u", "/", ":p">>, i18n |-> TRUE],
    [method |-> "POST", path |-> <<"/", "a">>, i18n |-> FALSE],
    [method |-> "POST", path |-> <<"/", "a">>, i18n |-> TRUE],
    [method |-> "OPTIONS", path |-> <<"/", "a">>, i18n |-> FALSE],
    [method |-> "OPTIONS", path |-> <<"/", "a", "/">>, i18n |-> FALSE],
    [method |-> "CONNECT", path |-> <<"/", "a", "/">>, i18n |-> FALSE] }

\* The request paths (URL.Path) of the incoming requests.
ReqPaths ==
  { <<"*">>, <<"/", "a">>, <<"/", "a", "/">>, <<"/", "A">>,
    <<"/", "/", "a">>, <<"/", "u", "/", "x">>, <<"/", "u", "/", "x", "/">> }

IsParam(t) == t \in {":p", ":q"}
IsCatchAll(t) == t \in {"*c", "*filepath"}
WildName(t) ==
  CASE t = ":p" -> "p" [] t = ":q" -> "q" [] t = "*c" -> "c"
    [] t = "*filepath" -> "filepath" [] OTHER -> t

\* unicode.ToLower on a segment.
ToLower(t) == CASE t = "A" -> "a" [] t = "PT" -> "pt" [] OTHER -> t

\* path[len(path)-1] == '/'
EndsInSlash(path) == Len(path) > 0 /\ path[Len(path)] = Slash

\* rawpath[:len(rawpath)-1]
DropLast(path) == SubSeq(path, 1, Len(path) - 1)


---------------------------------------------------------------------------
(* Content negotiation: TypeParam, less, Parse, ParseLang, FindBest.       *)
(* A header value is the sequence of its ","-separated entries; an entry   *)
(* is its tag and the text of its "q=" parameter ("" when it has none).    *)

\* The "/"-separated parts of a tag, SplitN(tag, "/", 2), before any ";".
TagParts(t) == CASE t = "*/*" -> <<"*", "*">> [] OTHER -> <<t>>

\* The ";"-separated parameters that follow the tag.
TagParams(t) == <<>>

\* strings.SplitN(tag, "-", 2)
FamilySplit(t) == CASE t = "pt-br" -> <<"pt", "br">> [] OTHER -> <<t>>

\* strconv.ParseFloat(q, 64) followed by int32(f * 1000.0); -1 is the error.
ParseQ(q) == CASE q = "1" -> 1000 [] q = "0.5" -> 500 [] q = "0" -> 0 [] OTHER -> -1

TypeParam(t, q) == [Type |-> t, Q |-> q]

\* less determines the order of two parameters.
less(l, r) ==
  IF l.Type = "*/*" \/ l.Type = "*" THEN TRUE
  ELSE IF l.Q = r.Q THEN
    IF l.Type = r.Type THEN FALSE
    ELSE LET si == TagParts(l.Type)
             sj == TagParts(r.Type)
         IN IF Len(si) = 2 /\ Len(sj) = 2
            THEN IF si[1] = sj[1]
                 THEN IF si[2] = "*" THEN FALSE
                      ELSE Len(TagParams(l.Type)) < Len(TagParams(r.Type))
                 ELSE FALSE
            ELSE Len(l.Type) < Len(r.Type)
  ELSE l.Q < r.Q

\* TypeParams.Less
TpsLess(tps, i, j) == ~less(tps[i], tps[j])

\* TypeParams.Swap
TpsSwap(tps, i, j) == [tps EXCEPT ![i] = tps[j], ![j] = tps[i]]

\* sort.IsSorted
IsSorted(tps) == \A i \in 2..Len(tps) : ~TpsLess(tps, i, i - 1)

\* The inner loop of sort's insertion sort: for j := i; j > a && Less(j, j-1); j--
RECURSIVE SortInner(_, _)
SortInner(tps, j) ==
  IF j > 1 /\ TpsLess(tps, j, j - 1)
  THEN SortInner(TpsSwap(tps, j, j - 1), j - 1)
  ELSE tps

RECURSIVE SortOuter(_, _)
SortOuter(tps, i) ==
  IF i > Len(tps) THEN tps ELSE SortOuter(SortInner(tps, i), i + 1)

\* sort.Sort on a slice of at most 12 elements (insertion sort).
SortTps(tps) == SortOuter(tps, 2)

\* if !sort.IsSorted(tps) { sort.Sort(tps) }
SortIfNeeded(tps) == IF IsSorted(tps) THEN tps ELSE SortTps(tps)

\* Parse: [err, tps].  An entry without parameters gets quality 1000.
Parse(s) ==
  IF Len(s) = 0 THEN [err |-> TRUE, tps |-> <<>>]
  ELSE IF \E i \in 1..Len(s) : s[i].q # "" /\ ParseQ(s[i].q) < 0
       THEN [err |-> TRUE, tps |-> <<>>]
       ELSE [err |-> FALSE,
             tps |-> SortIfNeeded(
                       [i \in 1..Len(s) |->
                          TypeParam(s[i].tag,
                                    IF s[i].q = "" THEN 1000 ELSE ParseQ(s[i].q))])]

\* sort.Search(n, f): binary search for the smallest index at which f holds.
RECURSIVE Search(_, _, _, _)
Search(tps, t, i, j) ==
  IF i < j
  THEN LET h == (i + j) \div 2
       IN IF tps[h + 1].Type # t
          THEN Search(tps, t, h + 1, j)
          ELSE Search(tps, t, i, h)
  ELSE i

\* TypeParams.IsPresent
IsPresent(tps, t) ==
  LET i == Search(tps, t, 0, Len(tps))
  IN i < Len(tps) /\ tps[i + 1].Type = t

\* The keys of ParseLang's tpdmap: the families it synthesizes an entry for.
FamilyKeys(tps) ==
  { FamilySplit(tps[i].Type)[1] :
      i \in { k \in 1..Len(tps) :
                /\ Len(FamilySplit(tps[k].Type)) > 1
                /\ ~IsPresent(tps, FamilySplit(tps[k].Type)[1]) } }

\* The quality tpdmap holds for a family: the maximum over its region variants.
FamilyQ(tps, fam) ==
  LET qs == { tps[i].Q : i \in { k \in 1..Len(tps) :
                                   /\ Len(FamilySplit(tps[k].Type)) > 1
                                   /\ FamilySplit(tps[k].Type)[1] = fam } }
  IN CHOOSE q \in qs : \A q2 \in qs : q2 <= q

\* The part of ParseLang that follows its call of Parse, whose result is p.
ParseLangOf(p, famOrder) ==
  IF p.err THEN p
  ELSE [err |-> FALSE,
        tps |-> SortIfNeeded(
                  p.tps \o [i \in 1..Len(famOrder) |->
                              TypeParam(famOrder[i], FamilyQ(p.tps, famOrder[i]))])]

\* ParseLang; famOrder is the order in which the range over tpdmap visits it.
ParseLang(s, famOrder) == ParseLangOf(Parse(s), famOrder)

\* comptypes compares two types, accepting "*".
comptypes(l, r) ==
  IF l = r THEN TRUE
  ELSE LET ls == TagParts(ToLower(l))
           rs == TagParts(ToLower(r))
           ltp == TagParams(l)
           rtp == TagParams(r)
           typesOk ==
             \/ Len(ls) = 1 /\ ls[1] = "*" /\ Len(rs) >= 1
             \/ Len(ls) = 2 /\ Len(rs) = 2 /\ ls[1] = "*" /\ ls[2] = "*"
             \/ /\ Len(ls) = 2 /\ Len(rs) = 2 /\ ls[1] = "*" /\ ls[2] # "*"
                /\ rs[1] # "" /\ rs[1] # " " /\ ls[2] = rs[2]
             \/ /\ Len(ls) = 2 /\ Len(rs) = 2 /\ ls[1] # "*" /\ ls[2] = "*"
                /\ rs[2] # "" /\ rs[2] # " " /\ ls[1] = rs[1]
       IN /\ typesOk
          /\ \/ Len(ltp) = 0 /\ Len(rtp) = 0
             \/ ltp = rtp

\* rankType returns the Q of the first type of tps compatible with t.
rankType(tps, t) ==
  IF \E i \in 1..Len(tps) : comptypes(tps[i].Type, t)
  THEN tps[CHOOSE i \in 1..Len(tps) :
             /\ comptypes(tps[i].Type, t)
             /\ \A k \in 1..(i - 1) : ~comptypes(tps[k].Type, t)].Q
  ELSE -1

\* strings.TrimSpace on a key of the supported set.
TrimSpace(t) == CASE t = " en" -> "en" [] OTHER -> t

\* The loop of FindBest over the supported set, visited in the order vs.
RECURSIVE FindBestFrom(_, _, _)
FindBestFrom(tps, vs, best) ==
  IF vs = <<>> THEN best
  ELSE LET tp == TypeParam(TrimSpace(Head(vs)), rankType(tps, TrimSpace(Head(vs))))
       IN FindBestFrom(tps, Tail(vs),
                       IF tp.Q > -1 /\ less(best, tp) THEN tp ELSE best)

\* TypeParams.FindBest; vs is the supported set in the order the range visits it.
FindBest(tps, vs) ==
  IF Len(vs) = 0 THEN "" ELSE FindBestFrom(tps, vs, TypeParam("", 0)).Type

\* All the orders in which a range over a Go map may visit the set S.
Orders(S) ==
  { f \in [1..Cardinality(S) -> S] : \A i, j \in 1..Cardinality(S) : f[i] = f[j] => i = j }

\* SupportedLangs of the router, and the Accept-Language values of the requests.
SupportedLangs == {"en", "pt"}

AcceptLangs ==
  { <<>>,
    <<[tag |-> "PT", q |-> ""]>>,
    <<[tag |-> "pt", q |-> "x"]>>,
    <<[tag |-> "fr", q |-> ""]>>,
    <<[tag |-> "pt-BR", q |-> "0.5"], [tag |-> "*", q |-> "0"]>> }

\* strings.ToLower on the header value.
LowerHeader(s) ==
  [i \in 1..Len(s) |->
     [tag |-> CASE s[i].tag = "PT" -> "pt" [] s[i].tag = "pt-BR" -> "pt-br"
                [] OTHER -> s[i].tag,
      q |-> s[i].q]]

\* The part of acceptedLanguage that follows its call of ParseLang.
acceptedOf(parsed, vsOrder) ==
  IF parsed.err THEN "" ELSE FindBest(parsed.tps, vsOrder)

\* Router.acceptedLanguage; vsOrder and famOrder are the two map iteration orders.
acceptedLanguage(al, vsOrder, famOrder) ==
  IF al = <<>> THEN ""
  ELSE acceptedOf(ParseLang(LowerHeader(al), famOrder), vsOrder)

\* The orders the range over tpdmap may take, given what Parse returned.
FamOrdersOf(p) == IF p.err THEN {<<>>} ELSE Orders(FamilyKeys(p.tps))

\* The orders the range over tpdmap may take for this header value.
FamOrders(al) == IF al = <<>> THEN {<<>>} ELSE FamOrdersOf(Parse(LowerHeader(al)))


---------------------------------------------------------------------------
(* The path trie of one method: the set of its routes, each a pattern, its *)
(* i18n flag and its handle.  getValue and findCaseInsensitivePath are     *)
(* given by their contract: the value registered for the path, and the     *)
(* trailing-slash recommendation.                                          *)

Route(path, i18n, handle) == [path |-> path, i18n |-> i18n, handle |-> handle]

NoParams == [nil |-> TRUE, v |-> <<>>]

\* Whether the pattern holds a wildcard segment.
HasWildcard(pat) == \E i \in 1..Len(pat) : IsParam(pat[i]) \/ IsCatchAll(pat[i])

\* countParams
countParams(pat) ==
  Cardinality({ i \in 1..Len(pat) : IsParam(pat[i]) \/ IsCatchAll(pat[i]) })

\* A pattern against a path: whether it matches, the parameters it binds and the
\* path as the pattern spells it (static segments in the pattern's letter case).
\* With ci the static segments are compared case-insensitively.
RECURSIVE MatchPattern(_, _, _)
MatchPattern(pat, p, ci) ==
  IF pat = <<>>
  THEN [ok |-> p = <<>>, ps |-> <<>>, canon |-> <<>>]
  ELSE IF Len(pat) = 2 /\ pat[1] = Slash /\ IsCatchAll(pat[2])
  THEN [ok |-> p # <<>> /\ Head(p) = Slash,
        ps |-> <<[Key |-> WildName(pat[2]), Value |-> p]>>,
        canon |-> p]
  ELSE IF p = <<>>
  THEN [ok |-> FALSE, ps |-> <<>>, canon |-> <<>>]
  ELSE LET rest == MatchPattern(Tail(pat), Tail(p), ci)
       IN IF IsParam(Head(pat))
          THEN [ok |-> Head(p) # Slash /\ rest.ok,
                ps |-> <<[Key |-> WildName(Head(pat)), Value |-> <<Head(p)>>]>> \o rest.ps,
                canon |-> <<Head(p)>> \o rest.canon]
          ELSE [ok |-> /\ IF ci THEN ToLower(Head(p)) = ToLower(Head(pat))
                                ELSE Head(p) = Head(pat)
                       /\ rest.ok,
                ps |-> rest.ps,
                canon |-> <<Head(pat)>> \o rest.canon]

\* The path with its trailing slash removed if it has one, added otherwise.
ToggleSlash(path) == IF EndsInSlash(path) THEN DropLast(path) ELSE path \o <<Slash>>

\* The routes of the trie whose pattern matches the path.
Matching(root, path, ci) == { r \in root : MatchPattern(r.path, path, ci).ok }

\* The Param that precedes the wildcards' in the Params of a route with
\* wildcards: Param{"i18n", "false"} for a route registered with i18n false.
I18nParam(r) == [Key |-> "i18n", Value |-> <<IF r.i18n THEN "true" ELSE "false">>]

\* What getValue returns at the node of route r, reached by the path.
getValueHit(r, path) ==
  [handle |-> r.handle,
   ps |-> IF HasWildcard(r.path)
          THEN [nil |-> FALSE,
                v |-> <<I18nParam(r)>> \o MatchPattern(r.path, path, FALSE).ps]
          ELSE NoParams,
   i18n |-> r.i18n,
   tsr |-> FALSE]

\* node.getValue: the handle registered for the path, its parameters (nil for a
\* pattern without wildcards), its i18n flag, and the trailing-slash recommendation.
getValueOf(root, path, hits) ==
  IF hits # {}
  THEN getValueHit(CHOOSE x \in hits : TRUE, path)
  ELSE [handle |-> NilHandle, ps |-> NoParams, i18n |-> FALSE,
        tsr |-> Matching(root, ToggleSlash(path), FALSE) # {}]

getValue(root, path) == getValueOf(root, path, Matching(root, path, FALSE))

\* node.findCaseInsensitivePath
findCaseInsensitiveOf(path, fixTrailingSlash, same, togg) ==
  IF same # {}
  THEN [found |-> TRUE,
        path |-> MatchPattern((CHOOSE x \in same : TRUE).path, path, TRUE).canon]
  ELSE IF fixTrailingSlash /\ togg # {}
  THEN [found |-> TRUE,
        path |-> MatchPattern((CHOOSE x \in togg : TRUE).path,
                              ToggleSlash(path), TRUE).canon]
  ELSE [found |-> FALSE, path |-> <<>>]

findCaseInsensitivePath(root, path, fixTrailingSlash) ==
  findCaseInsensitiveOf(path, fixTrailingSlash, Matching(root, path, TRUE),
                        Matching(root, ToggleSlash(path), TRUE))

\* CleanPath: the path with its empty segments ("//") removed, made to begin with "/".
RECURSIVE DropDoubleSlash(_)
DropDoubleSlash(p) ==
  IF Len(p) < 2 THEN p
  ELSE IF p[1] = Slash /\ p[2] = Slash THEN DropDoubleSlash(Tail(p))
  ELSE <<Head(p)>> \o DropDoubleSlash(Tail(p))

CleanPath(p) ==
  IF p = <<>> THEN <<Slash>>
  ELSE IF Head(p) # Slash THEN DropDoubleSlash(<<Slash>> \o p)
  ELSE DropDoubleSlash(p)

\* node.addRoute panics when the pattern is already registered in the trie and
\* when a catch-all is not the final segment of the pattern.
addRouteConflict(root, path) ==
  \/ \E r \in root : r.path = path
  \/ \E i \in 1..(Len(path) - 1) : IsCatchAll(path[i])

---------------------------------------------------------------------------
(* router.go: splitPath, allowed. *)

\* splitPath: the non-empty elements of strings.Split(path, "/").
splitPath(path) == SelectSeq(path, LAMBDA t : t # Slash)

\* "/" + filepath.Join(segs...)
RECURSIVE JoinPath(_)
JoinPath(segs) ==
  IF segs = <<>> THEN <<Slash>>
  ELSE IF Len(segs) = 1 THEN <<Slash, segs[1]>>
  ELSE <<Slash, Head(segs)>> \o JoinPath(Tail(segs))

\* The methods of order that allowed appends, in that order, for a specific path.
RECURSIVE AllowedScan(_, _, _, _)
AllowedScan(t, order, path, reqMethod) ==
  IF order = <<>> THEN <<>>
  ELSE (IF Head(order) # reqMethod /\ Head(order) # MethodOptions
           /\ getValue(t[Head(order)], path).handle # NilHandle
        THEN <<Head(order)>> ELSE <<>>)
       \o AllowedScan(t, Tail(order), path, reqMethod)

\* The inner loop of allowed's sort: for j := i; j > 0 && allowed[j] < allowed[j-1]; j--
RECURSIVE AllowedInner(_, _)
AllowedInner(a, j) ==
  IF j > 1 /\ StrLess(a[j], a[j - 1])
  THEN AllowedInner([a EXCEPT ![j] = a[j - 1], ![j - 1] = a[j]], j - 1)
  ELSE a

RECURSIVE AllowedOuter(_, _)
AllowedOuter(a, i) ==
  IF i > Len(a) THEN a ELSE AllowedOuter(AllowedInner(a, i), i + 1)

\* strings.Join(a, ", ")
RECURSIVE JoinComma(_)
JoinComma(a) ==
  IF a = <<>> THEN ""
  ELSE IF Len(a) = 1 THEN a[1]
  ELSE a[1] \o ", " \o JoinComma(Tail(a))

\* allowed without its sort: the methods are joined in the order they were found.
AllowedFinishUnsorted(allowedList) ==
  IF Len(allowedList) > 0
  THEN JoinComma(Append(allowedList, MethodOptions))
  ELSE ""

\* if len(allowed) > 0 { append OPTIONS; sort; join }
AllowedFinish(allowedList) ==
  IF Len(allowedList) > 0
  THEN JoinComma(AllowedOuter(Append(allowedList, MethodOptions), 2))
  ELSE ""

\* Router.allowed on the trees t with the cached value cached; order is the order
\* in which the range over r.trees visits the methods.
allowed(t, cached, path, reqMethod, order) ==
  IF path = <<"*">>
  THEN IF reqMethod = ""
       THEN AllowedFinish(SelectSeq(order, LAMBDA method : method # MethodOptions))
       ELSE cached
  ELSE AllowedFinish(AllowedScan(t, order, path, reqMethod))


---------------------------------------------------------------------------
(* ResponseWriter: the buffer of header, status code and body.             *)

NoHeader == [Allow |-> "", Location |-> <<>>, ContentType |-> "", XHandler |-> ""]

\* NewResponseWriter
NewResponseWriter == [header |-> NoHeader, code |-> 0, body |-> <<>>]

\* ResponseWriter.WriteHeader
WriteHeader(b, code) == [b EXCEPT !.code = code]

\* ResponseWriter.Write
Write(b, chunk) == [b EXCEPT !.body = Append(@, chunk)]

\* The Reset that only empties the buffer.
ResetBuffer(b) == [b EXCEPT !.body = <<>>]

\* ResponseWriter.Reset
Reset(b) == [b EXCEPT !.code = 0, !.header = NoHeader, !.body = <<>>]

\* ResponseWriter.Read: the buffer gives up what is read, here its first chunk.
Read(b) == [b EXCEPT !.body = IF @ = <<>> THEN @ ELSE Tail(@)]

\* rw.Header().Set("Content-Type", v)
SetContentType(b, v) == [b EXCEPT !.header.ContentType = v]

\* ResponseWriter.Copy onto another ResponseWriter: the headers are added, the
\* code is written when it is not 0, the bytes of the buffer are written.
CopyTo(b, dst) ==
  [header |-> [Allow |-> IF b.header.Allow # "" THEN b.header.Allow
                          ELSE dst.header.Allow,
               Location |-> IF b.header.Location # <<>> THEN b.header.Location
                             ELSE dst.header.Location,
               ContentType |-> IF b.header.ContentType # "" THEN b.header.ContentType
                                ELSE dst.header.ContentType,
               XHandler |-> IF b.header.XHandler # "" THEN b.header.XHandler
                             ELSE dst.header.XHandler],
   code |-> IF b.code # 0 THEN b.code ELSE dst.code,
   body |-> dst.body \o b.body]

\* The source after Copy: rw.buffer.Bytes() does not consume the buffer.
AfterCopy(b) == b

\* The transport's http.ResponseWriter before anything is written to it.
EmptySink == [header |-> NoHeader, code |-> 0, body |-> <<>>, copies |-> 0]

\* ResponseWriter.Copy: the headers are added, the code is written when it is not
\* 0, the body is written (the sink's first Write sends status 200 when no status
\* was written).
Copy(b, dst) ==
  [header |-> [Allow |-> IF b.header.Allow # "" THEN b.header.Allow
                          ELSE dst.header.Allow,
               Location |-> IF b.header.Location # <<>> THEN b.header.Location
                             ELSE dst.header.Location,
               ContentType |-> IF b.header.ContentType # "" THEN b.header.ContentType
                                ELSE dst.header.ContentType,
               XHandler |-> IF b.header.XHandler # "" THEN b.header.XHandler
                             ELSE dst.header.XHandler],
   code |-> IF dst.code # 0 THEN dst.code
            ELSE IF b.code # 0 THEN b.code ELSE StatusOK,
   body |-> dst.body \o b.body,
   copies |-> dst.copies + 1]

\* http.Error(w, text, code)
httpError(b, text, code) ==
  Write(WriteHeader([b EXCEPT !.header.ContentType = "text/plain"], code), text)

\* http.Redirect(w, req, url, code)
httpRedirect(b, method, url, code) ==
  LET h == [b EXCEPT !.header.Location = url,
                     !.header.ContentType =
                        IF @ = "" /\ method = MethodGet THEN "text/html" ELSE @]
      c == WriteHeader(h, code)
  IN IF method = MethodGet THEN Write(c, "redirect") ELSE c

\* What a registered handle does with its ResponseWriter, one call at a time.
HandlerWrite(b, step, handle) ==
  CASE step = "s1" -> [b EXCEPT !.header.XHandler = handle]
    [] step = "s2" -> WriteHeader(b, StatusOK)
    [] step = "s3" -> Write(b, handle)

HandlerNext(step) ==
  CASE step = "s1" -> "s2" [] step = "s2" -> "s3" [] step = "s3" -> "send"

\* The handle "hp" panics after it set its header: panic("oops!").
Panics(handle) == handle = "hp"

\* handle(w, req) run to its return, or to its panic.
RunHandler(b, handle) ==
  IF Panics(handle) THEN HandlerWrite(b, "s1", handle)
  ELSE HandlerWrite(HandlerWrite(HandlerWrite(b, "s1", handle), "s2", handle),
                    "s3", handle)

\* What the function set as Router.PanicHandler does with the buffer it gets.
PanicHook(b) == Write(WriteHeader(b, StatusInternalServerError), "recovered")

\* The recovery that swallows the panic without calling the hook.
recvSilent(b, n) == [w |-> b, hooked |-> n]

\* if rcv := recover(); rcv != nil { r.PanicHandler(w, req, rcv) }: the buffer
\* after it and the number of calls of the hook so far; the deferred function of
\* the nested goroutine does the same before it signals.
recv(b, n) == [w |-> PanicHook(b), hooked |-> n + 1]

---------------------------------------------------------------------------
(* Router.selectLang and redirLang. *)

\* redirLang
redirLang(b, method, path, selected) ==
  httpRedirect(b, method, <<Slash, selected>> \o path,
               IF method # "GET" THEN StatusTemporaryRedirect
               ELSE StatusMovedPermanently)

\* The part of selectLang that follows the choice of selectedLang and splitPath.
selectLangOf(b, method, path, selectedLang, psplit) ==
  IF path # <<"*">>
  THEN IF Len(psplit) > 0
       THEN IF psplit[1] \in SupportedLangs
            THEN [w |-> b, lang |-> psplit[1], redirected |-> FALSE,
                  path |-> IF Len(psplit) > 1
                           THEN JoinPath(Tail(psplit)) \o
                                (IF EndsInSlash(path) THEN <<Slash>> ELSE <<>>)
                           ELSE <<Slash>>]
            ELSE [w |-> redirLang(b, method, path, selectedLang),
                  lang |-> selectedLang, redirected |-> TRUE, path |-> path]
       ELSE [w |-> redirLang(b, method, path, selectedLang),
             lang |-> selectedLang, redirected |-> TRUE, path |-> path]
  ELSE [w |-> b, lang |-> selectedLang, redirected |-> FALSE, path |-> path]

\* selectedLang := r.DefaultLang; if lang := r.acceptedLanguage(req); lang != "" ...
SelectedLang(defaultLang, accepted) == IF accepted # "" THEN accepted ELSE defaultLang

\* Router.selectLang: the buffer after it, the "UASelectedLang" value it stores,
\* whether it redirected, and the path it returns.
selectLang(b, defaultLang, method, path, al, vsOrder, famOrder) ==
  selectLangOf(b, method, path,
               SelectedLang(defaultLang, acceptedLanguage(al, vsOrder, famOrder)),
               splitPath(path))

---------------------------------------------------------------------------
(* The router. *)

EmptyTrees == [m \in {} |-> {}]

HasTree(t, m) == m \in DOMAIN t

\* The number of routes registered in all the tries.
RouteCount(t) == Cardinality(UNION { { <<m, r>> : r \in t[m] } : m \in DOMAIN t })

\* New(): the configuration of a new Router; the exported fields may be set
\* before the router serves.
Configs ==
  [ RedirectTrailingSlash : BOOLEAN,
    RedirectFixedPath : BOOLEAN,
    HandleMethodNotAllowed : BOOLEAN,
    HandleOPTIONS : BOOLEAN,
    GlobalOPTIONS : BOOLEAN,
    MethodNotAllowed : BOOLEAN,
    NotFound : BOOLEAN,
    Context : {"none", "plain", "deadline"},
    DefaultLang : {"", "en"},
    PanicHandler : BOOLEAN ]

\* No exported function has returned yet.
NoRet == [op |-> "none"]

NoReq ==
  [Method |-> "", Path |-> <<>>, AcceptLanguage |-> <<>>, follow |-> "none",
   ctx |-> <<>>, hookCtx |-> <<>>]

Idle ==
  /\ pc = "idle" /\ hpc = "none" /\ req = NoReq /\ ctxErr = ""
  /\ w = NewResponseWriter /\ rw = EmptySink
  /\ outcome = {} /\ redir = "" /\ handled = NilHandle /\ lang = ""
  /\ hooked = 0 /\ written = <<>> /\ ret = NoRet

Init ==
  /\ trees = EmptyTrees
  /\ globalAllowed = ""
  /\ maxParams = 0
  /\ cfg \in { c \in Configs :
                 /\ c.Context = "plain"
                 /\ ~c.PanicHandler
                 /\ c.GlobalOPTIONS = c.NotFound
                 /\ c.MethodNotAllowed = c.NotFound
                 /\ c.NotFound => /\ c.RedirectTrailingSlash /\ c.RedirectFixedPath
                                  /\ c.HandleMethodNotAllowed /\ c.HandleOPTIONS }
  /\ Idle

---------------------------------------------------------------------------
(* Router.Handle *)

\* Handle(method, path, i18n, handle); order is the order of the range over
\* r.trees in the call of allowed that refreshes the cache.
HandleOf(method, path, i18n, handle, order, trees1, r) ==
  /\ pc = "idle"
  /\ ret' = r
  /\ RouteCount(trees) < MaxRoutes
  /\ order \in Orders(DOMAIN trees1)
  /\ globalAllowed' = IF HasTree(trees, method) THEN globalAllowed
                      ELSE allowed(trees1, globalAllowed, <<"*">>, "", order)
  /\ IF addRouteConflict(trees1[method], path)
     THEN /\ trees' = trees1
          /\ maxParams' = maxParams
     ELSE /\ trees' = [trees1 EXCEPT ![method] = @ \cup {Route(path, i18n, handle)}]
          /\ maxParams' = IF countParams(path) > maxParams
                          THEN countParams(path) ELSE maxParams
  /\ UNCHANGED <<cfg, pc, req, w, rw, hpc, ctxErr, outcome, redir, handled, lang,
                 hooked, written>>

\* if root == nil { root = new(node); r.trees[method] = root; ... }
WithTree(t, method) == IF HasTree(t, method) THEN t ELSE t @@ (method :> {})

Handle(method, path, i18n, handle, order) ==
  HandleOf(method, path, i18n, handle, order, WithTree(trees, method), ret)

\* The checks of Handle without the one of the handle.
HandleFaultNoNil(method, path, handle) ==
  IF method = "" THEN "method must not be empty"
  ELSE IF Len(path) < 1 \/ path[1] # Slash THEN "path must begin with '/'"
  ELSE ""

\* The panic of the three checks Handle makes before it touches the router, ""
\* when they pass.
HandleFault(method, path, handle) ==
  IF method = "" THEN "method must not be empty"
  ELSE IF Len(path) < 1 \/ path[1] # Slash THEN "path must begin with '/'"
  ELSE IF handle = NilHandle THEN "handle must not be nil"
  ELSE ""

\* What a call of Handle or ServeFiles leaves in ret: its arguments and its panic.
Called(op, method, path, handle, fault) ==
  [op |-> op, method |-> method, path |-> path, handle |-> handle, panic |-> fault]

\* A call of Handle with any arguments: it panics in its checks, or it goes on to
\* the trie, where addRoute registers the route or panics.
HandleCallOf(op, method, path, i18n, handle, order, fault) ==
  IF fault # ""
  THEN /\ pc = "idle"
       /\ ret' = Called(op, method, path, handle, fault)
       /\ UNCHANGED <<trees, globalAllowed, maxParams, cfg, pc, req, w, rw, hpc,
                      ctxErr, outcome, redir, handled, lang, hooked, written>>
  ELSE HandleOf(method, path, i18n, handle, order, WithTree(trees, method),
                Called(op, method, path, handle,
                       IF addRouteConflict(WithTree(trees, method)[method], path)
                       THEN "addRoute" ELSE ""))

HandleCall(method, path, i18n, handle, order) ==
  HandleCallOf("Handle", method, path, i18n, handle, order,
               HandleFault(method, path, handle))

---------------------------------------------------------------------------
(* Router.ServeFiles *)

\* The handle ServeFiles registers: the file server of root.
FileServer == "fileServer"

\* if len(path) < 10 || path[len(path)-10:] != "/*filepath" { panic(...) }
ServeFilesFault(path) ==
  IF Len(path) < 2 \/ path[Len(path)] # "*filepath" \/ path[Len(path) - 1] # Slash
  THEN "path must end with /*filepath"
  ELSE ""

ServeFilesOf(path, order, fault) ==
  IF fault # ""
  THEN /\ pc = "idle"
       /\ ret' = Called("ServeFiles", MethodGet, path, FileServer, fault)
       /\ UNCHANGED <<trees, globalAllowed, maxParams, cfg, pc, req, w, rw, hpc,
                      ctxErr, outcome, redir, handled, lang, hooked, written>>
  ELSE HandleCallOf("ServeFiles", MethodGet, path, FALSE, FileServer, order,
                    HandleFault(MethodGet, path, FileServer))

\* ServeFiles(path, root): r.GET(path, false, the file server's handle).
ServeFiles(path, order) == ServeFilesOf(path, order, ServeFilesFault(path))

---------------------------------------------------------------------------
(* Router.ServeHTTP *)

\* The redirect code with 307 in the place of 308.
RedirectCodeTemporary(method) ==
  IF method # MethodGet THEN StatusTemporaryRedirect ELSE StatusMovedPermanently

\* The 301 for GET, 308 otherwise, of the trailing-slash and fixed-path redirects.
RedirectCode(method) ==
  IF method # MethodGet THEN StatusPermanentRedirect ELSE StatusMovedPermanently

\* The trailing-slash target that always appends the slash.
TsrTargetAppend(rawpath) == rawpath \o <<Slash>>

\* The trailing-slash redirect target computed from rawpath.
TsrTarget(rawpath) ==
  IF Len(rawpath) > 1 /\ rawpath[Len(rawpath)] = Slash
  THEN DropLast(rawpath)
  ELSE rawpath \o <<Slash>>

\* The fallthrough that tries the 405 before the automatic OPTIONS reply.
FallthroughNotAllowedFirst(c, method, optAllow, allow, b0) ==
  IF c.HandleMethodNotAllowed /\ allow # ""
  THEN [kind |-> "405",
        w |-> IF c.MethodNotAllowed
              THEN Write(WriteHeader([b0 EXCEPT !.header.Allow = allow], StatusTeapot),
                         "custom method")
              ELSE httpError([b0 EXCEPT !.header.Allow = allow],
                             "Method Not Allowed", StatusMethodNotAllowed)]
  ELSE IF method = MethodOptions /\ c.HandleOPTIONS /\ optAllow # ""
  THEN [kind |-> "options",
        w |-> IF c.GlobalOPTIONS
              THEN WriteHeader([b0 EXCEPT !.header.Allow = optAllow], StatusNoContent)
              ELSE [b0 EXCEPT !.header.Allow = optAllow]]
  ELSE [kind |-> "404",
        w |-> IF c.NotFound
              THEN WriteHeader(b0, StatusNotFound)
              ELSE httpError(b0, "404 page not found", StatusNotFound)]

\* The automatic OPTIONS reply, the 405 or the 404, given the two Allow values.
FallthroughOf(c, method, optAllow, allow, b0) ==
  IF method = MethodOptions /\ c.HandleOPTIONS /\ optAllow # ""
  THEN [kind |-> "options",
        w |-> IF c.GlobalOPTIONS
              THEN WriteHeader([b0 EXCEPT !.header.Allow = optAllow], StatusNoContent)
              ELSE [b0 EXCEPT !.header.Allow = optAllow]]
  ELSE IF ~(method = MethodOptions /\ c.HandleOPTIONS)
          /\ c.HandleMethodNotAllowed /\ allow # ""
  THEN [kind |-> "405",
        w |-> IF c.MethodNotAllowed
              THEN Write(WriteHeader([b0 EXCEPT !.header.Allow = allow], StatusTeapot),
                         "custom method")
              ELSE httpError([b0 EXCEPT !.header.Allow = allow],
                             "Method Not Allowed", StatusMethodNotAllowed)]
  ELSE [kind |-> "404",
        w |-> IF c.NotFound
              THEN WriteHeader(b0, StatusNotFound)
              ELSE httpError(b0, "404 page not found", StatusNotFound)]

\* The part of ServeHTTP after the lookup in the method's trie found no handle and
\* no redirect: automatic OPTIONS, 405, 404.
ServeFallthrough(c, t, cached, method, path, order) ==
  FallthroughOf(c, method,
                allowed(t, cached, path, MethodOptions, order),
                allowed(t, cached, path, method, order),
                NewResponseWriter)

\* The trailing-slash redirect, the fixed-path redirect or the fallthrough, given
\* what findCaseInsensitivePath returns.
UnmatchedOf(c, t, cached, method, path, tsr, order, fixed) ==
  IF HasTree(t, method) /\ method # MethodConnect /\ path # <<Slash>>
     /\ tsr /\ c.RedirectTrailingSlash
  THEN [kind |-> "tsr",
        w |-> httpRedirect(NewResponseWriter, method, TsrTarget(path),
                           RedirectCode(method))]
  ELSE IF HasTree(t, method) /\ method # MethodConnect /\ path # <<Slash>>
          /\ c.RedirectFixedPath /\ fixed.found
  THEN [kind |-> "fix",
        w |-> httpRedirect(NewResponseWriter, method, fixed.path,
                           RedirectCode(method))]
  ELSE ServeFallthrough(c, t, cached, method, path, order)

\* The part of ServeHTTP that runs when the method's trie has no handle for the
\* path: the trailing-slash redirect, the fixed-path redirect, or the fallthrough.
ServeUnmatched(c, t, cached, method, path, tsr, order) ==
  UnmatchedOf(c, t, cached, method, path, tsr, order,
              findCaseInsensitivePath(t[method], CleanPath(path),
                                      c.RedirectTrailingSlash))

\* root.getValue(path, r.getParams) when the method has a trie.
RootGetValue(t, method, path) ==
  IF HasTree(t, method) THEN getValue(t[method], path)
  ELSE [handle |-> NilHandle, ps |-> NoParams, i18n |-> FALSE, tsr |-> FALSE]

\* if r.DefaultLang != "" && i18n == true { req, path = r.selectLang(w, req) }
LangStep(c, i18n, method, path, al, vsOrder, famOrder) ==
  IF c.DefaultLang # "" /\ i18n
  THEN selectLang(NewResponseWriter, c.DefaultLang, method, path, al,
                  vsOrder, famOrder)
  ELSE [w |-> NewResponseWriter, lang |-> "", redirected |-> FALSE, path |-> path]

\* The matched branch with every handle run in place.
MatchedInPlace(v, sl) ==
  [kind |-> "sync", w |-> RunHandler(sl.w, v.handle), lang |-> sl.lang,
   handled |-> v.handle, langRedirect |-> sl.redirected]

\* The matched branch of ServeHTTP: the handle runs in place when the route has
\* parameters, in the nested goroutine otherwise.
Matched(v, sl) ==
  IF ~v.ps.nil
  THEN [kind |-> "sync", w |-> RunHandler(sl.w, v.handle), lang |-> sl.lang,
        handled |-> v.handle, langRedirect |-> sl.redirected]
  ELSE [kind |-> "async", w |-> sl.w, lang |-> sl.lang,
        handled |-> v.handle, langRedirect |-> sl.redirected]

Unmatched(u) ==
  [kind |-> u.kind, w |-> u.w, lang |-> "", handled |-> NilHandle,
   langRedirect |-> FALSE]

DecideOf(c, t, cached, method, path, al, vsOrder, famOrder, order, v) ==
  IF v.handle # NilHandle
  THEN Matched(v, LangStep(c, v.i18n, method, path, al, vsOrder, famOrder))
  ELSE Unmatched(ServeUnmatched(c, t, cached, method, path, v.tsr, order))

\* What ServeHTTP decides for a request, up to the point where it runs the handle
\* in the nested goroutine (kind "async") or returns: the kind of the decision,
\* the buffer, the language stored in the request context, the handle invoked and
\* whether selectLang redirected.
Decide(c, t, cached, method, path, al, vsOrder, famOrder, order) ==
  DecideOf(c, t, cached, method, path, al, vsOrder, famOrder, order,
           RootGetValue(t, method, path))

\* The terminal outcomes a decision stands for.
OutcomesOf(d) ==
  (IF d.kind \in {"sync", "async"} THEN {"executed"} ELSE {})
  \cup (IF d.kind \in {"tsr", "fix"} \/ d.langRedirect THEN {"redirect"} ELSE {})
  \cup (IF d.kind \in {"options", "405", "404"} THEN {d.kind} ELSE {})

RedirOf(d) ==
  IF d.langRedirect THEN "lang"
  ELSE IF d.kind \in {"tsr", "fix"} THEN d.kind ELSE ""

\* A context is the chain of its ancestors, the context of the incoming request
\* first.  req.Context() once selectLang has stored the language in it
\* (context.WithValue(req.Context(), "UASelectedLang", selectedLang)).
LangContext(d) ==
  IF d.lang = "" THEN <<"request">> ELSE <<"request", "UASelectedLang">>

\* r.Context(ctx): the hook of New() returns its argument, the other one
\* context.WithDeadline(in, ...).
ContextHook(c, ctx) == IF c.Context = "deadline" THEN ctx \o <<"deadline">> ELSE ctx

\* The context of the request the handle is called with:
\* req.WithContext(context.WithValue(req.Context(), "Params", ...)).
HandlerContext(d) ==
  IF d.handled = NilHandle THEN <<>> ELSE LangContext(d) \o <<"Params">>

\* The ctx of the select, for a handle without parameters: ctx := req.Context();
\* if r.Context != nil { ctx, cancelCtx = r.Context(ctx) }.  There is none for a
\* handle with parameters.
DerivedContext(c, d) ==
  IF d.kind # "async" THEN <<>>
  ELSE IF c.Context = "none" THEN LangContext(d)
  ELSE ContextHook(c, LangContext(d))

\* The handle panicked in ServeHTTP's own goroutine, leaving the buffer b: the
\* deferred recv, when a PanicHandler is set, calls it, then the deferred Copy
\* runs; without a PanicHandler the panic leaves ServeHTTP after the Copy.
BeginPanic(b, r) ==
  /\ hpc' = "none"
  /\ IF cfg.PanicHandler
     THEN /\ w' = r.w
          /\ hooked' = r.hooked
          /\ rw' = Copy(r.w, EmptySink)
          /\ pc' = "done"
     ELSE /\ w' = b
          /\ hooked' = 0
          /\ rw' = Copy(b, EmptySink)
          /\ pc' = "panicked"

\* The state ServeHTTP reaches with the decision d: the select (a handle without
\* parameters, run in the nested goroutine) or its return, the deferred Copy
\* included.
BeginOf(method, path, al, follow, d) ==
  /\ req' = [Method |-> method, Path |-> path, AcceptLanguage |-> al,
             follow |-> follow, ctx |-> HandlerContext(d),
             hookCtx |-> DerivedContext(cfg, d)]
  /\ outcome' = OutcomesOf(d)
  /\ redir' = RedirOf(d)
  /\ handled' = d.handled
  /\ lang' = d.lang
  /\ ctxErr' = ""
  /\ IF d.kind = "sync" /\ Panics(d.handled)
     THEN BeginPanic(d.w, recv(d.w, 0))
     ELSE /\ w' = d.w
          /\ hooked' = 0
          /\ IF d.kind = "async"
             THEN /\ rw' = EmptySink
                  /\ pc' = "select"
                  /\ hpc' = "s1"
             ELSE /\ rw' = Copy(d.w, EmptySink)
                  /\ pc' = "done"
                  /\ hpc' = "none"
  /\ UNCHANGED <<trees, globalAllowed, maxParams, cfg, written, ret>>

\* ServeHTTP from its entry to the select or to its return.
Begin(method, path, al, follow, vsOrder, famOrder, order) ==
  BeginOf(method, path, al, follow,
          Decide(cfg, trees, globalAllowed, method, path, al, vsOrder, famOrder, order))

\* Whether serving the request reads its Accept-Language header.
ReadsAcceptLanguage(method, path) ==
  /\ cfg.DefaultLang # ""
  /\ RootGetValue(trees, method, path).i18n

ServeHTTP(method, path, al) ==
  /\ pc = "idle"
  /\ al # <<>> => ReadsAcceptLanguage(method, path)
  /\ \E vsOrder \in Orders(SupportedLangs), famOrder \in FamOrders(al),
        order \in Orders(DOMAIN trees) :
       Begin(method, path, al, "none", vsOrder, famOrder, order)

\* The client requests the Location of the redirect it got, with the same method
\* and headers.
FollowRedirect ==
  /\ pc = "done"
  /\ hpc \in {"none", "exit", "send"}
  /\ redir # ""
  /\ req.follow = "none"
  /\ rw.header.Location # <<>>
  /\ \E vsOrder \in Orders(SupportedLangs), famOrder \in FamOrders(req.AcceptLanguage),
        order \in Orders(DOMAIN trees) :
       Begin(req.Method, rw.header.Location, req.AcceptLanguage, redir,
             vsOrder, famOrder, order)

\* One call of the handle on its ResponseWriter, in the nested goroutine.
HandlerStep ==
  /\ hpc \in {"s1", "s2", "s3"}
  /\ ~(Panics(handled) /\ hpc = "s2")
  /\ w' = HandlerWrite(w, hpc, handled)
  /\ hpc' = HandlerNext(hpc)
  /\ UNCHANGED <<trees, globalAllowed, maxParams, cfg, pc, req, rw, ctxErr,
                 outcome, redir, handled, lang, hooked, written, ret>>

\* The handle panics in the nested goroutine: with a PanicHandler set, the
\* goroutine's deferred function recovers, calls it and signals on s; without
\* one the panic ends the program.
HandlerPanicOf(r) ==
  /\ hpc = "s2"
  /\ Panics(handled)
  /\ IF cfg.PanicHandler
     THEN /\ w' = r.w
          /\ hooked' = r.hooked
          /\ hpc' = "send"
          /\ pc' = pc
     ELSE /\ w' = w
          /\ hooked' = hooked
          /\ hpc' = "exit"
          /\ pc' = "panicked"
  /\ UNCHANGED <<trees, globalAllowed, maxParams, cfg, req, rw, ctxErr,
                 outcome, redir, handled, lang, written, ret>>

HandlerPanic == HandlerPanicOf(recv(w, hooked))

\* case <-s: the handle was executed; ServeHTTP returns and the deferred Copy runs.
SelectDone ==
  /\ pc = "select"
  /\ hpc = "send"
  /\ hpc' = "exit"
  /\ pc' = "done"
  /\ rw' = Copy(w, rw)
  /\ UNCHANGED <<trees, globalAllowed, maxParams, cfg, req, w, ctxErr,
                 outcome, redir, handled, lang, hooked, written, ret>>

\* The derived context is done: its deadline passed or it was canceled.
CtxDone(err) ==
  /\ pc = "select"
  /\ cfg.Context = "deadline"
  /\ ctxErr = ""
  /\ ctxErr' = err
  /\ UNCHANGED <<trees, globalAllowed, maxParams, cfg, pc, req, w, rw, hpc,
                 outcome, redir, handled, lang, hooked, written, ret>>

\* case <-ctx.Done(): w.Reset()
SelectCtx ==
  /\ pc = "select"
  /\ ctxErr # ""
  /\ w' = Reset(w)
  /\ pc' = "reset"
  /\ UNCHANGED <<trees, globalAllowed, maxParams, cfg, req, rw, hpc, ctxErr,
                 outcome, redir, handled, lang, hooked, written, ret>>

\* switch ctx.Err(): the http.Error of the case.
WriteCtxError ==
  /\ pc = "reset"
  /\ w' = IF ctxErr = "Canceled"
          THEN httpError(w, "Context canceled", StatusInternalServerError)
          ELSE httpError(w, "Request Timeout", StatusRequestTimeout)
  /\ pc' = "errored"
  /\ UNCHANGED <<trees, globalAllowed, maxParams, cfg, req, rw, hpc, ctxErr,
                 outcome, redir, handled, lang, hooked, written, ret>>

\* ServeHTTP returning after the ctx case without the deferred Copy.
ReturnWithoutCopy ==
  /\ pc = "errored"
  /\ pc' = "done"
  /\ UNCHANGED <<trees, globalAllowed, maxParams, cfg, req, w, rw, hpc, ctxErr,
                 outcome, redir, handled, lang, hooked, written, ret>>

\* ServeHTTP returns after the select's ctx case: the deferred Copy runs.
ReturnAfterCtx ==
  /\ pc = "errored"
  /\ rw' = Copy(w, rw)
  /\ pc' = "done"
  /\ UNCHANGED <<trees, globalAllowed, maxParams, cfg, req, w, hpc, ctxErr,
                 outcome, redir, handled, lang, hooked, written, ret>>

\* The request is over; the router waits for the next call.
Finish ==
  /\ pc = "done"
  /\ hpc \in {"none", "exit", "send"}
  /\ pc' = "idle" /\ hpc' = "none" /\ req' = NoReq /\ ctxErr' = ""
  /\ w' = NewResponseWriter /\ rw' = EmptySink
  /\ outcome' = {} /\ redir' = "" /\ handled' = NilHandle /\ lang' = ""
  /\ hooked' = 0
  /\ UNCHANGED <<trees, globalAllowed, maxParams, cfg, written, ret>>

---------------------------------------------------------------------------
(* Router.Lookup *)

\* The path Lookup hands to getValue.
LookupPath(c, path) ==
  IF c.DefaultLang # ""
  THEN (IF Len(splitPath(path)) > 0 /\ splitPath(path)[1] \in SupportedLangs
           /\ Len(splitPath(path)) > 1
        THEN JoinPath(Tail(splitPath(path)))
        ELSE path)
       \o (IF EndsInSlash(path) THEN <<Slash>> ELSE <<>>)
  ELSE path

\* What Lookup returns given what getValue returned for the path consulted.
LookupOf(method, path, consulted, v) ==
  [op |-> "Lookup", method |-> method, path |-> path, consulted |-> consulted,
   handle |-> v.handle,
   ps |-> IF v.handle = NilHandle THEN NoParams ELSE v.ps,
   tsr |-> v.tsr]

\* Lookup(method, path): the handle, the parameters and the trailing-slash
\* recommendation, with the path the trie was consulted with.
Lookup(c, t, method, path) ==
  LookupOf(method, path, LookupPath(c, path),
           RootGetValue(t, method, LookupPath(c, path)))

\* The Lookup that creates the trie of a method it does not know.
LookupCreating(method, path) ==
  /\ ret' = Lookup(cfg, trees, method, path)
  /\ trees' = WithTree(trees, method)
  /\ UNCHANGED <<globalAllowed, maxParams, cfg, pc, req, w, rw, hpc,
                 ctxErr, outcome, redir, handled, lang, hooked, written>>

\* A call of Lookup, at any moment: it only reads the router.
LookupCall(method, path) ==
  /\ ret' = Lookup(cfg, trees, method, path)
  /\ UNCHANGED <<trees, globalAllowed, maxParams, cfg, pc, req, w, rw, hpc,
                 ctxErr, outcome, redir, handled, lang, hooked, written>>

---------------------------------------------------------------------------
(* The specifications. *)

Register ==
  \E r \in Registrations, handle \in Handlers :
    \E order \in Orders(DOMAIN trees \cup {r.method}) :
      Handle(r.method, r.path, r.i18n, handle, order)

Serve ==
  \E method \in Methods, path \in ReqPaths, al \in AcceptLangs :
    ServeHTTP(method, path, al)

Next ==
  \/ Register
  \/ Serve
  \/ FollowRedirect
  \/ HandlerStep
  \/ SelectDone
  \/ Finish

Spec == Init /\ [][Next]_vars

---------------------------------------------------------------------------
(* The router as its exported functions see it: registration with any
   arguments, ServeFiles, Lookup, and the requests served meanwhile. *)

InitApi ==
  /\ trees = EmptyTrees
  /\ globalAllowed = ""
  /\ maxParams = 0
  /\ cfg \in { c \in Configs : /\ c.RedirectTrailingSlash /\ c.RedirectFixedPath
                                /\ c.HandleMethodNotAllowed /\ c.HandleOPTIONS
                                /\ ~c.GlobalOPTIONS /\ ~c.MethodNotAllowed
                                /\ ~c.NotFound /\ c.Context = "plain"
                                /\ ~c.PanicHandler }
  /\ Idle

\* Handle called with any arguments, the ones it must refuse included.
RegisterAny ==
  \E method \in {MethodGet, ""}, i18n \in BOOLEAN, handle \in Handlers \cup {NilHandle},
     path \in {<<"/", "a">>, <<"/", "a", "/">>, <<"/", "u", "/", ":p">>, <<>>, <<"a">>} :
    \E order \in Orders(DOMAIN trees \cup {method}) :
      HandleCall(method, path, i18n, handle, order)

RegisterFiles ==
  \E path \in {<<"/", "f", "/", "*filepath">>, <<"/", "f">>, <<"/", "f", "/">>,
                <<"f", "/", "*filepath">>, <<"*filepath">>} :
    \E order \in Orders(DOMAIN trees \cup {MethodGet}) : ServeFiles(path, order)

LookupAny ==
  \E method \in {MethodGet, MethodPost},
     path \in {<<"/", "a">>, <<"/", "a", "/">>, <<"/", "en", "/", "a">>,
               <<"/", "en", "/", "a", "/">>, <<"/", "en">>, <<"/", "en", "/">>,
               <<"/", "u", "/", "x">>, <<"/", "f", "/", "x">>, <<"/", "f">>} :
    LookupCall(method, path)

ServeApi ==
  \E method \in {MethodGet, MethodPost}, path \in ReqPaths :
    ServeHTTP(method, path, <<>>)

NextApi ==
  \/ RegisterAny
  \/ RegisterFiles
  \/ LookupAny
  \/ ServeApi
  \/ FollowRedirect
  \/ HandlerStep
  \/ SelectDone
  \/ Finish

SpecApi == InitApi /\ [][NextApi]_vars

---------------------------------------------------------------------------
(* The trie behind Lookup, for patterns with wildcards. *)

\* New(): the router before any route is registered, with no default language.
InitNew ==
  /\ trees = EmptyTrees
  /\ globalAllowed = ""
  /\ maxParams = 0
  /\ cfg \in { c \in Configs : /\ c.RedirectTrailingSlash /\ c.RedirectFixedPath
                                /\ c.HandleMethodNotAllowed /\ c.HandleOPTIONS
                                /\ ~c.GlobalOPTIONS /\ ~c.MethodNotAllowed
                                /\ ~c.NotFound /\ c.Context = "plain"
                                /\ c.DefaultLang = "" /\ ~c.PanicHandler }
  /\ Idle

\* The patterns registered: named parameters and catch-alls.
RegisterTrie ==
  \E i18n \in BOOLEAN, handle \in Handlers,
     path \in {<<"/", "u", "/", ":p">>, <<"/", "u", "/", ":p", "/", ":q">>,
               <<"/", "f", "/", "*filepath">>, <<"/", "g", "/", ":p", "/", "*c">>} :
    HandleCall(MethodGet, path, i18n, handle, <<MethodGet>>)

LookupTrie ==
  \E path \in {<<"/", "u", "/", "x">>, <<"/", "u", "/", "x", "/">>,
                <<"/", "u", "/", "x", "/", "y">>, <<"/", "u", "/", "y", "/", "x">>,
                <<"/", "u">>, <<"/", "f">>, <<"/", "f", "/">>, <<"/", "f", "/", "x">>,
                <<"/", "f", "/", "x", "/", "y">>, <<"/", "f", "/", "x", "/">>,
                <<"/", "g", "/", "x">>, <<"/", "g", "/", "x", "/">>,
                <<"/", "g", "/", "x", "/", "y", "/", "x">>} :
    LookupCall(MethodGet, path)

NextTrie == RegisterTrie \/ LookupTrie

SpecTrie == InitNew /\ [][NextTrie]_vars

---------------------------------------------------------------------------
(* Router.HandlerPaths.  A node of the trie is named by the pattern prefix *)
(* that leads to it and includes its own path; the path iter has gathered  *)
(* when it enters the node is the prefix without the node's own path.      *)

\* n.handle: the handle of the route whose pattern ends at the node.
NodeHandle(root, n) ==
  IF \E r \in root : r.path = n
  THEN (CHOOSE r \in root : r.path = n).handle
  ELSE NilHandle

\* n.nType: the node of a catch-all holds "/*name", the node of a named
\* parameter ":name".
NodeType(n) ==
  IF n = <<>> THEN "root"
  ELSE IF IsCatchAll(n[Len(n)]) THEN "catchAll"
  ELSE IF IsParam(n[Len(n)]) THEN "param"
  ELSE "static"

\* n.children, in the order the node keeps them.
NodeChildren(root, n) ==
  CHOOSE s \in Orders({ IF IsCatchAll(r.path[Len(r.path)]) /\ Len(r.path) = Len(n) + 2
                        THEN r.path
                        ELSE SubSeq(r.path, 1, Len(n) + 1) :
                        r \in { x \in root : /\ Len(x.path) > Len(n)
                                             /\ SubSeq(x.path, 1, Len(n)) = n } }) : TRUE

\* path = strings.TrimSuffix(path, "/"); i := strings.LastIndex(path, "/");
\* if i >= 1 { path = path[:i] }
ParamParent(path) ==
  LET p == IF EndsInSlash(path) THEN DropLast(path) ELSE path
      js == { j \in 1..Len(p) : p[j] = Slash }
  IN IF \E j \in js : j > 1
     THEN SubSeq(p, 1, (CHOOSE j \in js : \A k \in js : k <= j) - 1)
     ELSE p

\* One call of the visitor f.
Visit(method, path, handle) == [method |-> method, path |-> path, handle |-> handle]

\* iter(params, method, path, n, f), for a visitor that returns false at its
\* call number stop; made is the number of calls made before.  The result is
\* the calls of f that iter makes and what iter returns.
RECURSIVE iter(_, _, _, _, _, _, _)
RECURSIVE iterChildren(_, _, _, _, _, _, _)
iter(params, method, path, n, root, made, stop) ==
  IF NodeHandle(root, n) # NilHandle /\ ~params /\ NodeType(n) = "catchAll"
  THEN [calls |-> <<Visit(method, path, NodeHandle(root, n))>>,
        ok |-> made + 1 # stop]
  ELSE IF NodeHandle(root, n) # NilHandle /\ ~params /\ NodeType(n) = "param"
  THEN [calls |-> <<Visit(method, ParamParent(path), NodeHandle(root, n))>>,
        ok |-> made + 1 # stop]
  ELSE IF NodeHandle(root, n) # NilHandle /\ made + 1 = stop
  THEN [calls |-> <<Visit(method, n, NodeHandle(root, n))>>, ok |-> FALSE]
  ELSE IF NodeHandle(root, n) # NilHandle
  THEN [calls |-> <<Visit(method, n, NodeHandle(root, n))>>
                  \o iterChildren(params, method, n, NodeChildren(root, n), root,
                                  made + 1, stop).calls,
        ok |-> iterChildren(params, method, n, NodeChildren(root, n), root,
                            made + 1, stop).ok]
  ELSE iterChildren(params, method, n, NodeChildren(root, n), root, made, stop)

\* for _, child := range n.children { if !iter(...) { return false } }; return true
iterChildren(params, method, p, cs, root, made, stop) ==
  IF cs = <<>> THEN [calls |-> <<>>, ok |-> TRUE]
  ELSE IF ~iter(params, method, p, Head(cs), root, made, stop).ok
  THEN iter(params, method, p, Head(cs), root, made, stop)
  ELSE [calls |-> iter(params, method, p, Head(cs), root, made, stop).calls
                  \o iterChildren(params, method, p, Tail(cs), root,
                       made + Len(iter(params, method, p, Head(cs), root, made, stop).calls),
                       stop).calls,
        ok |-> iterChildren(params, method, p, Tail(cs), root,
                 made + Len(iter(params, method, p, Head(cs), root, made, stop).calls),
                 stop).ok]

\* for m, n := range r.trees { if !iter(params, m, "", n, f) { return } }
\* order is the order of the range over the map.
RECURSIVE HandlerPaths(_, _, _, _, _)
HandlerPaths(t, params, order, made, stop) ==
  IF order = <<>> THEN <<>>
  ELSE IF ~iter(params, Head(order), <<>>, <<>>, t[Head(order)], made, stop).ok
  THEN iter(params, Head(order), <<>>, <<>>, t[Head(order)], made, stop).calls
  ELSE iter(params, Head(order), <<>>, <<>>, t[Head(order)], made, stop).calls
       \o HandlerPaths(t, params, Tail(order),
            made + Len(iter(params, Head(order), <<>>, <<>>, t[Head(order)], made, stop).calls),
            stop)

\* A call of HandlerPaths(params, f): only its visitor sees anything.
HandlerPathsCall(params, order, stop) ==
  /\ pc = "idle"
  /\ order \in Orders(DOMAIN trees)
  /\ ret' = [op |-> "HandlerPaths", params |-> params, stop |-> stop,
             calls |-> HandlerPaths(trees, params, order, 0, stop)]
  /\ UNCHANGED <<trees, globalAllowed, maxParams, cfg, pc, req, w, rw, hpc, ctxErr,
                 outcome, redir, handled, lang, hooked, written>>

\* The routes of TestHandlerPaths: static patterns, named parameters and
\* catch-alls, under two methods.
RegisterPaths ==
  \E method \in {MethodGet, MethodPost}, handle \in Handlers \cup {FileServer},
     path \in {<<"/", "a">>, <<"/", "u", "/", ":p">>, <<"/", "u", "/", ":p", "/", ":q">>,
               <<"/", "f", "/", "*filepath">>, <<"/", "g", "/", ":p", "/", "*c">>} :
    \E order \in Orders(DOMAIN WithTree(trees, method)) :
      HandleCall(method, path, FALSE, handle, order)

\* The visitor returns false at its first, second or third call.
HandlerPathsAny ==
  \E params \in BOOLEAN, stop \in 1..(MaxRoutes + 1) :
    \E order \in Orders(DOMAIN trees) : HandlerPathsCall(params, order, stop)

NextPaths == RegisterPaths \/ HandlerPathsAny

SpecPaths == InitNew /\ [][NextPaths]_vars

---------------------------------------------------------------------------
(* Registration calls alone, the ones that panic included: a nil handle, a *)
(* pattern registered twice, a catch-all that is not the final segment.    *)

RegisterFaulty ==
  \E method \in {MethodGet, MethodPost, MethodOptions},
     handle \in Handlers \cup {NilHandle},
     path \in {<<"/", "a">>, <<"/", "u", "/", ":p">>, <<"/", "f", "/", "*c", "/", "x">>} :
    \E order \in Orders(DOMAIN trees \cup {method}) :
      HandleCall(method, path, FALSE, handle, order)

NextFaulty == RegisterFaulty

SpecFaulty == InitNew /\ [][NextFaulty]_vars

\* The router with a context-derivation hook whose context has a deadline: the
\* select of ServeHTTP races the handle against ctx.Done().
InitRace ==
  /\ trees = EmptyTrees
  /\ globalAllowed = ""
  /\ maxParams = 0
  /\ cfg \in { c \in Configs : /\ c.RedirectTrailingSlash /\ c.RedirectFixedPath
                                /\ c.HandleMethodNotAllowed /\ c.HandleOPTIONS
                                /\ ~c.GlobalOPTIONS /\ ~c.MethodNotAllowed
                                /\ ~c.NotFound /\ c.Context = "deadline"
                                /\ ~c.PanicHandler }
  /\ Idle

NextRace ==
  \/ Register
  \/ Serve
  \/ FollowRedirect
  \/ HandlerStep
  \/ SelectDone
  \/ \E err \in {"Canceled", "DeadlineExceeded"} : CtxDone(err)
  \/ SelectCtx
  \/ WriteCtxError
  \/ ReturnAfterCtx
  \/ Finish

SpecRace == InitRace /\ [][NextRace]_vars

---------------------------------------------------------------------------
(* The negotiation functions, each called once on a header value and a
   supported set. *)

\* The header values: up to MaxEntries entries "tag" or "tag;q=value".
NegHeaders ==
  UNION { [1..n -> [tag : {"en", "pt", "pt-br", "*", "*/*"},
                    q : {"", "0.5", "0", "x"}]] : n \in 0..MaxEntries }

\* The supported sets handed to FindBest.
NegSupported == { {"en", "pt"}, {" en", "pt"}, {"pt"} }

\* tps, err := Parse(s)
ParseAny ==
  /\ ret = NoRet
  /\ \E s \in NegHeaders :
       ret' = [op |-> "Parse", s |-> s, err |-> Parse(s).err, tps |-> Parse(s).tps]
  /\ UNCHANGED <<trees, globalAllowed, maxParams, cfg, pc, req, w, rw, hpc, ctxErr,
                 outcome, redir, handled, lang, hooked, written>>

\* tps, err := ParseLang(s)
ParseLangAny ==
  /\ ret = NoRet
  /\ \E s \in NegHeaders : \E famOrder \in FamOrdersOf(Parse(s)) :
       ret' = [op |-> "ParseLang", s |-> s, err |-> ParseLang(s, famOrder).err,
               tps |-> ParseLang(s, famOrder).tps]
  /\ UNCHANGED <<trees, globalAllowed, maxParams, cfg, pc, req, w, rw, hpc, ctxErr,
                 outcome, redir, handled, lang, hooked, written>>

\* tps.FindBest(vs) on a list p that ParseLang returned, vs visited in vsOrder.
FindBestOf(p, vs, vsOrder) ==
  /\ ~p.err
  /\ ret' = [op |-> "FindBest", tps |-> p.tps, vs |-> vs,
             best |-> FindBest(p.tps, vsOrder)]
  /\ UNCHANGED <<trees, globalAllowed, maxParams, cfg, pc, req, w, rw, hpc, ctxErr,
                 outcome, redir, handled, lang, hooked, written>>

FindBestAny ==
  /\ ret = NoRet
  /\ \E s \in NegHeaders, vs \in NegSupported :
       \E famOrder \in FamOrdersOf(Parse(s)), vsOrder \in Orders(vs) :
         FindBestOf(ParseLang(s, famOrder), vs, vsOrder)

\* parsed, err := ParseLang(params); param := parsed.FindBest(r.SupportedLangs),
\* as acceptedLanguage calls them on a header value.
NegotiateAny ==
  /\ ret = NoRet
  /\ \E s \in NegHeaders, vs \in NegSupported :
       \E famOrder \in FamOrdersOf(Parse(s)), vsOrder \in Orders(vs) :
         ret' = [op |-> "Negotiate", s |-> s, vs |-> vs,
                 best |-> acceptedOf(ParseLang(s, famOrder), vsOrder)]
  /\ UNCHANGED <<trees, globalAllowed, maxParams, cfg, pc, req, w, rw, hpc, ctxErr,
                 outcome, redir, handled, lang, hooked, written>>

NextNeg == ParseAny \/ ParseLangAny \/ FindBestAny \/ NegotiateAny

SpecNeg == InitNew /\ [][NextNeg]_vars

---------------------------------------------------------------------------
(* A ResponseWriter in the hands of its user, as in TestResponseWriter. *)

\* One call that changes the ResponseWriter, with its argument.
WriterCalls ==
  [call : {"Write"}, arg : {"catotos", "bar"}]
  \cup [call : {"WriteHeader"}, arg : {StatusOK, StatusNotFound}]
  \cup [call : {"Header"}, arg : {"text/plain"}]
  \cup [call : {"Read", "Reset"}, arg : {""}]

\* The ResponseWriter after the call.
Apply(b, c) ==
  CASE c.call = "Write" -> Write(b, c.arg)
    [] c.call = "WriteHeader" -> WriteHeader(b, c.arg)
    [] c.call = "Header" -> SetContentType(b, c.arg)
    [] c.call = "Read" -> Read(b)
    [] c.call = "Reset" -> Reset(b)

WriterCall(c) ==
  /\ Len(written) < MaxCalls
  /\ w' = Apply(w, c)
  /\ written' = Append(written, c)
  /\ UNCHANGED <<trees, globalAllowed, maxParams, cfg, pc, req, rw, hpc, ctxErr,
                 outcome, redir, handled, lang, hooked, ret>>

\* dst := NewResponseWriter(); rw.Copy(dst)
WriterCopy ==
  /\ ret' = [op |-> "Copy", calls |-> written, src |-> w,
             dst |-> CopyTo(w, NewResponseWriter), after |-> AfterCopy(w)]
  /\ w' = AfterCopy(w)
  /\ UNCHANGED <<trees, globalAllowed, maxParams, cfg, pc, req, rw, hpc, ctxErr,
                 outcome, redir, handled, lang, hooked, written>>

NextWriter ==
  \/ \E c \in WriterCalls : WriterCall(c)
  \/ WriterCopy

SpecWriter == InitNew /\ [][NextWriter]_vars

---------------------------------------------------------------------------
(* The router that serves handles that panic, with and without a PanicHandler,
   with and without a deadline. *)

InitPanic ==
  /\ trees = EmptyTrees
  /\ globalAllowed = ""
  /\ maxParams = 0
  /\ cfg \in { c \in Configs : /\ c.RedirectTrailingSlash /\ c.RedirectFixedPath
                                /\ c.HandleMethodNotAllowed /\ c.HandleOPTIONS
                                /\ ~c.GlobalOPTIONS /\ ~c.MethodNotAllowed
                                /\ ~c.NotFound /\ c.DefaultLang = "" }
  /\ Idle

RegisterPanic ==
  \E handle \in Handlers \cup {"hp"},
     path \in {<<"/", "a">>, <<"/", "u", "/", ":p">>} :
    Handle(MethodGet, path, FALSE, handle, <<MethodGet>>)

ServePanic ==
  \E path \in {<<"/", "a">>, <<"/", "u", "/", "x">>, <<"/", "b">>} :
    ServeHTTP(MethodGet, path, <<>>)

NextPanic ==
  \/ RegisterPanic
  \/ ServePanic
  \/ HandlerStep
  \/ HandlerPanic
  \/ SelectDone
  \/ \E err \in {"Canceled", "DeadlineExceeded"} : CtxDone(err)
  \/ SelectCtx
  \/ WriteCtxError
  \/ ReturnAfterCtx
  \/ Finish

SpecPanic == InitPanic /\ [][NextPanic]_vars

\* One call of ServeHTTP and the nested goroutine it starts, followed to their
\* ends.  The Go scheduler runs every goroutine that can take a step: the
\* handle's goroutine, the select when one of its cases is ready, and the rest of
\* ServeHTTP after the select.
NextLeak ==
  \/ RegisterPanic
  \/ ServePanic
  \/ HandlerStep
  \/ HandlerPanic
  \/ SelectDone
  \/ \E err \in {"Canceled", "DeadlineExceeded"} : CtxDone(err)
  \/ SelectCtx
  \/ WriteCtxError
  \/ ReturnAfterCtx

SpecLeak ==
  /\ InitPanic
  /\ [][NextLeak]_vars
  /\ WF_vars(HandlerStep)
  /\ WF_vars(HandlerPanic)
  /\ WF_vars(SelectDone \/ SelectCtx)
  /\ WF_vars(WriteCtxError)
  /\ WF_vars(ReturnAfterCtx)

---------------------------------------------------------------------------
(* Every way ServeHTTP returns: routes under two methods, with and without *)
(* parameters, a handle that panics, and requests that end in a handle, a  *)
(* redirect, the OPTIONS reply, 405, 404, the ctx case of the select and   *)
(* a recovered panic.                                                      *)

RegisterSink ==
  \E method \in {MethodGet, MethodPost}, handle \in Handlers \cup {"hp"},
     path \in {<<"/", "a">>, <<"/", "u", "/", ":p">>} :
    \E order \in Orders(DOMAIN trees \cup {method}) :
      Handle(method, path, FALSE, handle, order)

ServeSink ==
  \E method \in {MethodGet, MethodPost, MethodOptions},
     path \in {<<"/", "a">>, <<"/", "a", "/">>, <<"/", "u", "/", "x">>, <<"/", "b">>} :
    ServeHTTP(method, path, <<>>)

NextSink ==
  \/ RegisterSink
  \/ ServeSink
  \/ FollowRedirect
  \/ HandlerStep
  \/ HandlerPanic
  \/ SelectDone
  \/ \E err \in {"Canceled", "DeadlineExceeded"} : CtxDone(err)
  \/ SelectCtx
  \/ WriteCtxError
  \/ ReturnAfterCtx
  \/ Finish

SpecSink == InitPanic /\ [][NextSink]_vars

---------------------------------------------------------------------------
(* Properties of one ServeHTTP call. *)

\* Whether the trie of method m has a handle for exactly this path.
ServedBy(m, path) == RootGetValue(trees, m, path).handle # NilHandle

\* The methods other than the given one and OPTIONS that serve the path.
OthersServing(path, method) ==
  { m \in Methods \ {method, MethodOptions} : ServedBy(m, path) }

\* The methods of S in ascending order, joined by ", ".
AllowText(S) ==
  JoinComma(CHOOSE q \in Orders(S) :
              \A i \in 1..(Len(q) - 1) : StrLess(q[i], q[i + 1]))

\* ServeHTTP has returned and its deferred Copy has run.
Returned == pc = "done"

\* The select of ServeHTTP took the ctx.Done() case; the handle was abandoned.
CtxWon == pc = "done" /\ ctxErr # "" /\ hpc # "exit"

\* The select of ServeHTTP took the handle's completion signal.
HandlerWon == pc = "done" /\ hpc = "exit"

\* C1 (as claimed): a ServeHTTP call that has returned produced exactly one of
\* the terminal outcomes executed, redirect, auto-OPTIONS, 405, 404.
C1_ExactlyOneOutcome == Returned => Cardinality(outcome) = 1

\* C2 (as claimed): when the ctx.Done() case won, the committed response holds
\* no header, status or body chunk written by the abandoned handle.
C2_NoAbandonedOutput ==
  CtxWon => /\ rw.header.XHandler = ""
            /\ rw.code # StatusOK
            /\ \A i \in DOMAIN rw.body : rw.body[i] # handled

\* C3 (as claimed): when the ctx.Done() case won, the committed status is 408 for
\* a deadline and 500 for a cancellation; when the handle's signal won, the buffer
\* as the handle left it is what was committed.
C3_CommitByWinner ==
  /\ CtxWon => rw.code = IF ctxErr = "DeadlineExceeded"
                         THEN StatusRequestTimeout ELSE StatusInternalServerError
  /\ HandlerWon => rw = Copy(w, EmptySink)

\* C4 (as claimed): when selectLang issued the language-prefix redirect, the
\* route's handle is not invoked for that request.
C4_RedirectStopsDispatch ==
  redir = "lang" => handled = NilHandle /\ rw.header.XHandler = ""

---------------------------------------------------------------------------
(* 405 and the automatic OPTIONS reply. *)

\* The request's method has no handle at the path, no redirect was issued, and
\* another method that is not OPTIONS serves the path, with 405 handling enabled.
C5_Case ==
  /\ Returned
  /\ cfg.HandleMethodNotAllowed
  /\ ~ServedBy(req.Method, req.Path)
  /\ redir = ""
  /\ OthersServing(req.Path, req.Method) # {}

\* The reply of the MethodNotAllowed handler or the default 405, with Allow the
\* other methods plus OPTIONS, sorted and joined by ", ".
C5_Answer ==
  /\ outcome = {"405"}
  /\ handled = NilHandle
  /\ rw.code = IF cfg.MethodNotAllowed THEN StatusTeapot ELSE StatusMethodNotAllowed
  /\ rw.header.Allow =
       AllowText(OthersServing(req.Path, req.Method) \cup {MethodOptions})

\* C5 (as claimed): every such request gets the 405 reply with that Allow.
C5_NotAllowedOriginal == C5_Case => C5_Answer

\* C5 (amended): every such request that is not an OPTIONS request with the
\* automatic OPTIONS handling enabled gets the 405 reply with that Allow.
C5_NotAllowed ==
  (C5_Case /\ ~(req.Method = MethodOptions /\ cfg.HandleOPTIONS)) => C5_Answer

\* C5 witness: a request of a third method for a path two other methods serve
\* got the 405 with both of them and OPTIONS in Allow.
C5_Witness ==
  /\ C5_Case
  /\ ~(req.Method = MethodOptions /\ cfg.HandleOPTIONS)
  /\ Cardinality(OthersServing(req.Path, req.Method)) = 2
  /\ rw.header.Allow = "GET, OPTIONS, POST"
  /\ rw.code = StatusMethodNotAllowed

C6_Case == Returned /\ cfg.HandleOPTIONS /\ req.Method = MethodOptions

\* The automatic reply: Allow, the GlobalOPTIONS handler (204 here) or the empty
\* 200, and no registered handle.
C6_AutoReply ==
  /\ outcome = {"options"}
  /\ handled = NilHandle
  /\ rw.header.XHandler = ""
  /\ rw.header.Allow =
       AllowText(OthersServing(req.Path, MethodOptions) \cup {MethodOptions})
  /\ rw.code = IF cfg.GlobalOPTIONS THEN StatusNoContent ELSE StatusOK
  /\ rw.body = <<>>

C6_HandlerRuns ==
  /\ "executed" \in outcome
  /\ "options" \notin outcome
  /\ handled # NilHandle
  /\ rw.header.XHandler = handled

C6_NotFound == outcome = {"404"} /\ rw.code = StatusNotFound /\ handled = NilHandle

\* C6 (as claimed): an OPTIONS request for a path without OPTIONS handle that
\* other methods serve gets the automatic reply; a registered OPTIONS handle is
\* executed instead; an OPTIONS request for a path no method serves gets 404.
C6_AutoOptionsOriginal ==
  C6_Case =>
    /\ (~ServedBy(MethodOptions, req.Path)
        /\ OthersServing(req.Path, MethodOptions) # {}) => C6_AutoReply
    /\ ServedBy(MethodOptions, req.Path) => C6_HandlerRuns
    /\ (\A m \in Methods : ~ServedBy(m, req.Path)) => C6_NotFound

\* C6 (amended): the same, where the automatic reply and the 404 are given only
\* when no trailing-slash or fixed-path redirect was issued from the OPTIONS
\* trie, and the 404 only for a path other than "*".
C6_AutoOptions ==
  C6_Case =>
    /\ (~ServedBy(MethodOptions, req.Path) /\ redir = ""
        /\ OthersServing(req.Path, MethodOptions) # {}) => C6_AutoReply
    /\ ServedBy(MethodOptions, req.Path) => C6_HandlerRuns
    /\ ((\A m \in Methods : ~ServedBy(m, req.Path)) /\ redir = ""
        /\ req.Path # <<"*">>) => C6_NotFound

\* C6 witness: an OPTIONS request got the automatic reply for a path that two
\* other methods serve while the OPTIONS trie holds no route for it.
C6_Witness ==
  /\ C6_Case
  /\ ~ServedBy(MethodOptions, req.Path)
  /\ Cardinality(OthersServing(req.Path, MethodOptions)) = 2
  /\ outcome = {"options"}
  /\ rw.header.Allow = "GET, OPTIONS, POST"

---------------------------------------------------------------------------
(* The trailing-slash and fixed-path redirects. *)

\* 301 for GET, 308 for the other methods.
C7_Code(method) ==
  IF method = MethodGet THEN StatusMovedPermanently ELSE StatusPermanentRedirect

C7_LowerPath(path) == [i \in DOMAIN path |-> ToLower(path[i])]

\* The method's trie has no handle for the path and recommends the trailing-slash
\* change, with RedirectTrailingSlash enabled.
C7_TsrCase ==
  /\ Returned
  /\ ~ServedBy(req.Method, req.Path)
  /\ RootGetValue(trees, req.Method, req.Path).tsr
  /\ cfg.RedirectTrailingSlash

C7_TsrReply ==
  /\ outcome = {"redirect"}
  /\ rw.code = C7_Code(req.Method)
  /\ rw.header.Location = ToggleSlash(req.Path)

\* A fixed-path redirect carries the same code and targets a path the method's
\* trie serves, equal to the cleaned request path up to letter case and the
\* trailing slash.
C7_FixReply ==
  /\ outcome = {"redirect"}
  /\ rw.code = C7_Code(req.Method)
  /\ ServedBy(req.Method, rw.header.Location)
  /\ C7_LowerPath(rw.header.Location) \in
       { C7_LowerPath(CleanPath(req.Path)),
         C7_LowerPath(ToggleSlash(CleanPath(req.Path))) }

C8_Case == Returned /\ req.follow \in {"tsr", "fix"}

C8_Direct ==
  /\ outcome = {"executed"}
  /\ redir = ""
  /\ rw.code = StatusOK
  /\ rw.header.XHandler = handled
  /\ rw.header.Location = <<>>

\* C8 (as claimed): the target of a trailing-slash or fixed-path redirect has a
\* handle for the same method and the request for it is answered by that handle,
\* without any further redirect.
C8_TargetServedOriginal ==
  C8_Case => ServedBy(req.Method, req.Path) /\ handled # NilHandle /\ C8_Direct

\* C8 (amended): the target always has a handle for the same method; unless the
\* route is an i18n route of a router with a default language, the request for
\* it is answered by that handle, without any further redirect.
C8_TargetServed ==
  C8_Case =>
    /\ ServedBy(req.Method, req.Path)
    /\ ~(cfg.DefaultLang # "" /\ RootGetValue(trees, req.Method, req.Path).i18n)
         => (handled # NilHandle /\ C8_Direct)

\* C8 witness: the Location of a fixed-path redirect was requested and answered
\* by the handle with 200.
C8_Witness == C8_Case /\ req.follow = "fix" /\ C8_Direct

---------------------------------------------------------------------------
(* The language-prefix redirect. *)

\* The quality an Accept-Language value gives a supported language: the highest
\* among its entries for the language, its regional variants or "*"; -1 if none.
C9_Rank(al, s) ==
  LET lo == LowerHeader(al)
      qs == { IF lo[i].q = "" THEN 1000 ELSE ParseQ(lo[i].q) :
                i \in { k \in DOMAIN lo :
                          \/ lo[k].tag = s
                          \/ FamilySplit(lo[k].tag)[1] = s
                          \/ lo[k].tag = "*" } }
  IN IF qs = {} THEN -1 ELSE CHOOSE q \in qs : \A q2 \in qs : q2 <= q

\* The languages the redirect may carry: the best supported ones, or the default
\* when the header is absent, unparsable or compatible with none.
C9_Best(al, def) ==
  IF \/ al = <<>>
     \/ \E i \in DOMAIN al : al[i].q # "" /\ ParseQ(al[i].q) < 0
     \/ \A s \in SupportedLangs : C9_Rank(al, s) < 0
  THEN {def}
  ELSE { s \in SupportedLangs : \A s2 \in SupportedLangs : C9_Rank(al, s2) <= C9_Rank(al, s) }

C9_Case ==
  /\ Returned
  /\ cfg.DefaultLang # ""
  /\ ServedBy(req.Method, req.Path)
  /\ RootGetValue(trees, req.Method, req.Path).i18n
  /\ splitPath(req.Path)[1] \notin SupportedLangs

\* C9 (as claimed): such a request is redirected to "/" + L + path, L the best
\* negotiated language or the default, with 301 for GET and 307 otherwise.
C9_LangRedirect ==
  C9_Case =>
    /\ rw.code = IF req.Method = MethodGet THEN StatusMovedPermanently
                 ELSE StatusTemporaryRedirect
    /\ \E L \in C9_Best(req.AcceptLanguage, cfg.DefaultLang) :
         rw.header.Location = <<Slash, L>> \o req.Path

\* C10 (as claimed): the request for the Location of a language-prefix redirect
\* reaches the handle with 200 and no further redirect, and the handle reads the
\* language of the URL prefix.
C10_PrefixedRequestServed ==
  (Returned /\ req.follow = "lang") =>
    /\ outcome = {"executed"}
    /\ redir = ""
    /\ rw.code = StatusOK
    /\ rw.header.XHandler = handled
    /\ lang = req.Path[2]

---------------------------------------------------------------------------
(* Lookup. *)

\* The path without its leading segment, with the trailing slash the path had.
C12_Stripped(path, rest) ==
  IF rest = <<>> THEN <<Slash>>
  ELSE JoinPath(rest) \o (IF EndsInSlash(path) THEN <<Slash>> ELSE <<>>)

\* The path the claim has Lookup consult the trie with.
C12_Expected(path, psplit) ==
  IF psplit # <<>> /\ psplit[1] \in SupportedLangs
  THEN C12_Stripped(path, Tail(psplit))
  ELSE path

\* C12 (as claimed): with a default language configured, Lookup consults the trie
\* with the path minus its leading segment when that segment is a supported
\* language, keeping the trailing slash, and with the path unchanged otherwise.
C12_LookupStripsLanguage ==
  (ret.op = "Lookup" /\ cfg.DefaultLang # "") =>
    ret.consulted = C12_Expected(ret.path, splitPath(ret.path))

\* C11 (as claimed): Lookup of a registered pattern without wildcards returns the
\* handle it was registered with and nil parameters, whatever the configuration
\* and the other routes.
C11_LookupFindsRegistered ==
  (ret.op = "Lookup" /\ ~HasWildcard(ret.path) /\ HasTree(trees, ret.method)) =>
    \A r \in trees[ret.method] :
      r.path = ret.path => (ret.handle = r.handle /\ ret.ps.nil)

---------------------------------------------------------------------------
(* Parameters. *)

C13_IsWildcard(t) == IsParam(t) \/ IsCatchAll(t)

\* The position in the pattern of its k-th wildcard, from the left.
C13_WildcardAt(pat, k) ==
  CHOOSE i \in 1..Len(pat) :
    /\ C13_IsWildcard(pat[i])
    /\ Cardinality({ j \in 1..i : C13_IsWildcard(pat[j]) }) = k

\* The value the wildcard at position i of the pattern takes from the path: the
\* segment for a named parameter, the whole remainder from the directory slash
\* for a catch-all.
C13_ValueAt(pat, path, i) ==
  IF IsCatchAll(pat[i]) THEN SubSeq(path, i - 1, Len(path)) ELSE <<path[i]>>

\* The Params the claim gives a path matched by the pattern.
C13_Params(pat, path) ==
  [k \in 1..countParams(pat) |->
     [Key |-> WildName(pat[C13_WildcardAt(pat, k)]),
      Value |-> C13_ValueAt(pat, path, C13_WildcardAt(pat, k))]]

\* The pattern ends in a catch-all and the path is the pattern without the
\* catch-all and its directory slash.
C13_NoDirectorySlash(pat, path) ==
  /\ Len(pat) > 2
  /\ IsCatchAll(pat[Len(pat)])
  /\ ~HasWildcard(SubSeq(pat, 1, Len(pat) - 2))
  /\ path = SubSeq(pat, 1, Len(pat) - 2)

\* C13 (as claimed): a path matched by a pattern with wildcards yields exactly one
\* Param per wildcard, in left-to-right order, a named parameter's value being its
\* segment and a catch-all's the remainder with its leading "/"; the pattern
\* without the directory slash does not match and recommends a trailing slash.
C13_OneParamPerWildcard ==
  (ret.op = "Lookup" /\ HasTree(trees, ret.method)) =>
    \A r \in trees[ret.method] :
      /\ (HasWildcard(r.path) /\ MatchPattern(r.path, ret.path, FALSE).ok) =>
           /\ ret.handle = r.handle
           /\ ~ret.ps.nil
           /\ ret.ps.v = C13_Params(r.path, ret.path)
      /\ C13_NoDirectorySlash(r.path, ret.path) =>
           (ret.handle = NilHandle /\ ret.tsr)

---------------------------------------------------------------------------
(* Registration errors. *)

\* The arguments Handle must refuse.
C14_BadHandle(method, path, handle) ==
  \/ method = ""
  \/ path = <<>>
  \/ path[1] # Slash
  \/ handle = NilHandle

\* The pattern ends in "/*filepath".
C14_FilePattern(path) ==
  /\ Len(path) >= 2
  /\ path[Len(path)] = "*filepath"
  /\ path[Len(path) - 1] = Slash

\* C14: Handle with an empty method, with a pattern that is empty or does not
\* begin with "/", or with a nil handle panics in the call, and so does ServeFiles
\* with a pattern that does not end in "/*filepath"; no such route is registered.
C14_InvalidRegistrationPanics ==
  /\ ret.op = "Handle" /\ C14_BadHandle(ret.method, ret.path, ret.handle)
       => ret.panic # ""
  /\ ret.op = "ServeFiles" /\ ~C14_FilePattern(ret.path) => ret.panic # ""
  /\ \A m \in DOMAIN trees :
       /\ m # ""
       /\ \A r \in trees[m] :
            /\ ~C14_BadHandle(m, r.path, r.handle)
            /\ r.handle = FileServer => C14_FilePattern(r.path)

\* Handle panicked on a nil handle, on a router that has routes.
C14_Witness ==
  /\ ret.op = "Handle"
  /\ ret.method # "" /\ ret.path # <<>> /\ ret.path[1] = Slash
  /\ ret.handle = NilHandle
  /\ ret.panic = "handle must not be nil"
  /\ RouteCount(trees) > 0

---------------------------------------------------------------------------
(* The router is read-only once the routes are registered. *)

\* The step belongs to a call of ServeHTTP or is a call of Lookup; the calls of
\* Handle and ServeFiles are made while no request is served and leave their
\* record in ret.
C16_ServingStep == pc # "idle" \/ pc' # "idle" \/ ret'.op = "Lookup"

\* C16: no step of ServeHTTP and no call of Lookup, however interleaved, changes
\* the method-to-trie mapping, a trie, the cached Allow string or the
\* configuration.
C16_ServingReadsOnly ==
  [][C16_ServingStep => UNCHANGED <<trees, globalAllowed, maxParams, cfg>>]_vars

\* Lookup found a handle while ServeHTTP waits for the handle of a request.
C16_Witness ==
  /\ ret.op = "Lookup" /\ ret.handle # NilHandle
  /\ pc = "select" /\ hpc = "s2"
  /\ RouteCount(trees) = MaxRoutes

---------------------------------------------------------------------------
(* Panic recovery. *)

\* The handle of the request has panicked: in ServeHTTP's goroutine before it
\* returned, in the nested goroutine once it is past its panic.
C15_Panicked ==
  /\ Panics(handled)
  /\ \/ pc = "done" /\ hpc = "none"
     \/ hpc \in {"send", "exit"}

\* The request was not abandoned: ServeHTTP returned without taking ctx.Done().
C15_NotAbandoned == pc = "done" /\ hpc \in {"none", "exit"}

\* C15: with a PanicHandler set, the panic of a handle, in ServeHTTP's goroutine
\* or in the nested one, abandoned or not, never leaves ServeHTTP; the
\* PanicHandler is called exactly once, with the buffer, and for a request that
\* was not abandoned what it wrote to the buffer is what is committed.
C15_PanicRecovered ==
  cfg.PanicHandler =>
    /\ pc # "panicked"
    /\ hooked = IF C15_Panicked THEN 1 ELSE 0
    /\ (C15_Panicked /\ C15_NotAbandoned) =>
         /\ rw = Copy(w, EmptySink)
         /\ rw.code = StatusInternalServerError
         /\ rw.body # <<>> /\ rw.body[Len(rw.body)] = "recovered"

\* A handle panicked in the nested goroutine after the deadline and the hook ran.
C15_Witness ==
  /\ cfg.PanicHandler
  /\ C15_Panicked
  /\ hpc = "send" /\ ctxErr # "" /\ pc = "done"
  /\ hooked = 1

---------------------------------------------------------------------------
(* ResponseWriter: Reset and Copy. *)

\* The calls made since the most recent Reset, all of them when there was none.
RECURSIVE C17_SinceReset(_)
C17_SinceReset(calls) ==
  IF \E i \in 1..Len(calls) : calls[i].call = "Reset"
  THEN C17_SinceReset(Tail(calls))
  ELSE calls

\* The chunks written by the calls, in order.
RECURSIVE C17_Chunks(_)
C17_Chunks(calls) ==
  IF calls = <<>> THEN <<>>
  ELSE IF Head(calls).call = "Write"
  THEN <<Head(calls).arg>> \o C17_Chunks(Tail(calls))
  ELSE C17_Chunks(Tail(calls))

\* The chunks written by the calls that no Read has consumed.
RECURSIVE C17_Unread(_, _)
C17_Unread(calls, buf) ==
  IF calls = <<>> THEN buf
  ELSE IF Head(calls).call = "Write"
  THEN C17_Unread(Tail(calls), Append(buf, Head(calls).arg))
  ELSE IF Head(calls).call = "Read" /\ buf # <<>>
  THEN C17_Unread(Tail(calls), Tail(buf))
  ELSE C17_Unread(Tail(calls), buf)

\* The argument of the last call of that name, none when there was no such call.
C17_Last(calls, name, none) ==
  IF \E i \in 1..Len(calls) : calls[i].call = name
  THEN calls[CHOOSE i \in 1..Len(calls) :
               /\ calls[i].call = name
               /\ \A j \in (i + 1)..Len(calls) : calls[j].call # name].arg
  ELSE none

\* Status code and headers are those written since the Reset, and Copy left the
\* source as it was.
C17_CodeAndHeaders(calls) ==
  /\ ret.dst.code = C17_Last(calls, "WriteHeader", 0)
  /\ ret.dst.header = [NoHeader EXCEPT !.ContentType = C17_Last(calls, "Header", "")]
  /\ (calls = <<>> => ret.dst.code = 0 /\ Len(ret.dst.body) = 0)
  /\ ret.after = ret.src

\* C17 (as claimed): Copy onto a fresh ResponseWriter gives exactly the status
\* code, the headers and the body written since NewResponseWriter or the most
\* recent Reset, nothing written before the Reset, code 0 and length 0 right
\* after a Reset; Copy leaves the source unchanged.
C17_CopySinceResetOriginal ==
  ret.op = "Copy" =>
    /\ C17_CodeAndHeaders(C17_SinceReset(ret.calls))
    /\ ret.dst.body = C17_Chunks(C17_SinceReset(ret.calls))

\* C17 (amended): the same, the body being what was written since then and not
\* yet consumed by Read.
C17_CopySinceReset ==
  ret.op = "Copy" =>
    /\ C17_CodeAndHeaders(C17_SinceReset(ret.calls))
    /\ ret.dst.body = C17_Unread(C17_SinceReset(ret.calls), <<>>)

\* A Copy after code, header and body were written, Reset, and written again.
C17_Witness ==
  /\ ret.op = "Copy"
  /\ Len(ret.calls) = MaxCalls
  /\ ret.calls[1].call = "WriteHeader" /\ ret.calls[1].arg = StatusNotFound
  /\ ret.calls[2].call = "Reset"
  /\ ret.calls[3].call = "Write"
  /\ ret.calls[4].call = "Header"
  /\ ret.dst.code = 0 /\ ret.dst.body = <<ret.calls[3].arg>>

---------------------------------------------------------------------------
(* Parse, ParseLang and FindBest. *)

C18_Wildcard(t) == t = "*" \/ t = "*/*"

\* C18 (as claimed): in the list Parse and ParseLang return, the tags that are not
\* wildcards are in non-increasing order of quality and every wildcard tag comes
\* after every tag that is not a wildcard.
C18_RankedOrder ==
  (ret.op \in {"Parse", "ParseLang"} /\ ~ret.err) =>
    \A i, j \in 1..Len(ret.tps) :
      i < j =>
        /\ (~C18_Wildcard(ret.tps[i].Type) /\ ~C18_Wildcard(ret.tps[j].Type))
             => ret.tps[i].Q >= ret.tps[j].Q
        /\ ~(C18_Wildcard(ret.tps[i].Type) /\ ~C18_Wildcard(ret.tps[j].Type))

\* How many entries of the list carry the tag.
C19_Count(tps, t) == Cardinality({ i \in 1..Len(tps) : tps[i].Type = t })

\* How many entries of the header value carry the tag.
C19_Listed(s, t) == Cardinality({ i \in 1..Len(s) : s[i].tag = t })

\* The qualities of the region variants of the language in the list.
C19_RegionQs(tps, l) ==
  { tps[i].Q : i \in { k \in 1..Len(tps) :
                         /\ Len(FamilySplit(tps[k].Type)) > 1
                         /\ FamilySplit(tps[k].Type)[1] = l } }

\* C19 (as claimed): for every tag lang-REGION of the header, the list ParseLang
\* returns holds the bare lang exactly once: the header's own entry when it lists
\* one, otherwise one entry with the highest quality among the region variants.
C19_FamilyOnce ==
  (ret.op = "ParseLang" /\ ~ret.err) =>
    \A i \in 1..Len(ret.s) :
      (Len(FamilySplit(ret.s[i].tag)) > 1
       /\ C19_Listed(ret.s, FamilySplit(ret.s[i].tag)[1]) <= 1) =>
        /\ C19_Count(ret.tps, FamilySplit(ret.s[i].tag)[1]) = 1
        /\ C19_Listed(ret.s, FamilySplit(ret.s[i].tag)[1]) = 0 =>
             \E k \in 1..Len(ret.tps) :
               /\ ret.tps[k].Type = FamilySplit(ret.s[i].tag)[1]
               /\ ret.tps[k].Q \in C19_RegionQs(ret.tps, ret.tps[k].Type)
               /\ \A q \in C19_RegionQs(ret.tps, ret.tps[k].Type) : q <= ret.tps[k].Q

\* The best quality among the entries of the list compatible with the tag, -1
\* when none is.
C20_Rank(tps, t) ==
  IF \E i \in 1..Len(tps) : comptypes(tps[i].Type, t)
  THEN CHOOSE q \in { tps[i].Q : i \in { k \in 1..Len(tps) : comptypes(tps[k].Type, t) } } :
         \A i \in 1..Len(tps) : comptypes(tps[i].Type, t) => tps[i].Q <= q
  ELSE -1

\* C20 (as claimed): FindBest returns a supported tag, taken as FindBest reads it,
\* without its surrounding white space, such that no supported tag is compatible
\* with an entry of strictly higher quality; it returns "" exactly when no entry
\* of the list is compatible with a supported tag.
C20_FindBest ==
  ret.op = "FindBest" =>
    /\ ret.best \in { TrimSpace(t) : t \in ret.vs } \cup {""}
    /\ ret.best = "" <=> \A t \in ret.vs : C20_Rank(ret.tps, TrimSpace(t)) = -1
    /\ ret.best # "" =>
         \A t \in ret.vs :
           C20_Rank(ret.tps, TrimSpace(t)) <= C20_Rank(ret.tps, ret.best)

---------------------------------------------------------------------------
(* C21 *)

\* The pattern with its wildcard segments collapsed to the static parent path.
C21_Collapsed(pat) ==
  LET ws == { i \in 1..Len(pat) : IsParam(pat[i]) \/ IsCatchAll(pat[i]) }
  IN IF ws = {} THEN pat
     ELSE SubSeq(pat, 1, (CHOOSE i \in ws : \A k \in ws : i <= k) - 2)

\* The visitor calls the claim expects for the registered routes.
C21_Expected(params) ==
  { [method |-> m, route |-> r,
     visit |-> Visit(m, IF params THEN r.path ELSE C21_Collapsed(r.path), r.handle)] :
    m \in DOMAIN trees, r \in UNION { trees[x] : x \in DOMAIN trees } }

C21_Registered(params) == { e \in C21_Expected(params) : e.route \in trees[e.method] }

\* C21: HandlerPaths calls the visitor exactly once for every registered
\* (method, pattern, handler), with the full pattern when params is true and
\* with the wildcard segments collapsed to the static parent path when params
\* is false, and it makes no call after the visitor has returned false.
C21_HandlerPathsVisits ==
  ret.op = "HandlerPaths" =>
    /\ Len(ret.calls) <= ret.stop
    /\ Len(ret.calls) < ret.stop =>
         \A v \in { ret.calls[i] : i \in 1..Len(ret.calls) }
                  \cup { e.visit : e \in C21_Registered(ret.params) } :
           Cardinality({ i \in 1..Len(ret.calls) : ret.calls[i] = v })
             = Cardinality({ e \in C21_Registered(ret.params) : e.visit = v })

---------------------------------------------------------------------------
(* C22 *)

\* C22: the request context the handler receives descends from the context the
\* context-derivation hook returned, with the router params below it.
C22_HandlerSeesHookContext ==
  handled # NilHandle =>
    /\ req.hookCtx # <<>>
    /\ Len(req.hookCtx) < Len(req.ctx)
    /\ SubSeq(req.ctx, 1, Len(req.hookCtx)) = req.hookCtx
    /\ req.ctx[Len(req.ctx)] = "Params"

---------------------------------------------------------------------------
(* C23 *)

\* ServeHTTP has not returned: the handle runs in the nested goroutine or the
\* ctx case of the select is at work.
C23_Deciding == pc \in {"select", "reset", "errored"}

\* C23: nothing reaches the real response sink before ServeHTTP has decided the
\* outcome, and when it has returned the buffer was copied to the sink exactly
\* once, whatever the outcome.
C23_CopiedOnce ==
  /\ C23_Deciding => rw = EmptySink
  /\ Returned => rw.copies = 1

\* The outcomes a request of the witness has gone through: a request answered by
\* the ctx case of the select, after a handle wrote into the buffer.
C23_Witness ==
  /\ Returned
  /\ ctxErr = "DeadlineExceeded"
  /\ rw.copies = 1
  /\ rw.code = StatusRequestTimeout
  /\ w.header.XHandler # ""

---------------------------------------------------------------------------
(* C24 *)

\* The route the request matched has no wildcard parameters.
C24_NoParams == RootGetValue(trees, req.Method, req.Path).ps.nil

\* A nested goroutine was started for the handle of the request.
C24_Nested == hpc # "none"

\* The request's handle ran in ServeHTTP's own goroutine and was over when
\* ServeHTTP returned and committed the response.
C24_InPlace == hpc = "none" /\ pc \in {"done", "panicked"} /\ rw.copies = 1

\* C24 as claimed: the handle runs in a nested goroutine, raced against the
\* context, only when the route has no parameters and a context-derivation hook
\* is configured; in place otherwise.
C24_NestedOnlyWithHook ==
  (handled # NilHandle /\ pc # "idle") =>
    IF C24_NoParams /\ cfg.Context # "none" THEN C24_Nested ELSE C24_InPlace

\* C24, amended: the handle runs in a nested goroutine, raced against the
\* context, whenever the route has no parameters, with or without a hook; with
\* parameters it runs in place and is over before the response is committed.
C24_NestedWhenNoParams ==
  (handled # NilHandle /\ pc # "idle") =>
    IF C24_NoParams THEN C24_Nested ELSE C24_InPlace

\* A router without a hook waits in the select while the nested goroutine runs
\* the handle.
C24_Witness ==
  /\ cfg.Context = "none"
  /\ handled # NilHandle
  /\ C24_NoParams
  /\ pc = "select"
  /\ hpc = "s2"

---------------------------------------------------------------------------
(* C29 *)

\* C29: a registration call that panics leaves the router as it was: no trie is
\* created, and the cached Allow string and the maximum parameter count keep
\* their values.
C29_PanicLeavesRouter ==
  [][ret'.panic # "" => UNCHANGED <<trees, globalAllowed, maxParams>>]_vars

---------------------------------------------------------------------------
(* C25 *)

\* The methods that have a registered route.
C25_Registered == { m \in DOMAIN trees : trees[m] # {} }

\* C25: once routes are registered, the cached Allow string for the path "*" is
\* the ascending, ", "-joined list of every registered method except OPTIONS,
\* plus OPTIONS.
C25_CachedAllow ==
  RouteCount(trees) > 0 =>
    globalAllowed = AllowText((C25_Registered \ {MethodOptions}) \cup {MethodOptions})

---------------------------------------------------------------------------
(* C26 *)

\* C26: for a header value and a supported set, ParseLang followed by FindBest
\* gives the same tag whatever the order of the range over the supported set and
\* over the synthesized family entries.
C26_OrderIndependent ==
  ret.op = "Negotiate" =>
    \A famOrder \in FamOrdersOf(Parse(ret.s)), vsOrder \in Orders(ret.vs) :
      acceptedOf(ParseLang(ret.s, famOrder), vsOrder) = ret.best

---------------------------------------------------------------------------
(* C27 *)

\* The methods the Allow header of the response lists.
C27_Listed ==
  CHOOSE S \in SUBSET Methods : AllowText(S) = rw.header.Allow

\* C27: a 405 response never lists the method of the request in its Allow
\* header.
C27_OwnMethodNotListed ==
  (Returned /\ "405" \in outcome) =>
    /\ \E S \in SUBSET Methods : AllowText(S) = rw.header.Allow
    /\ req.Method \notin C27_Listed

---------------------------------------------------------------------------
(* C28 *)

\* C28: a nested goroutine whose handle has returned, or whose panic was
\* recovered, and that is sending its completion signal on s, eventually ends.
C28_UnitTerminates == (hpc = "send") ~> (hpc = "exit")

=============================================================================
